---- MODULE Spec2Model ----
(***************************************************************************)
(* Verification model of the Todos repository.                             *)
(*                                                                         *)
(*   Spec      the main backend's task endpoints (api/task_routes.py) on   *)
(*             top of TaskService and the 'task' table, requested by any   *)
(*             sender                                                      *)
(*   SpecOwner the same endpoints requested by the owner of the path       *)
(*   SpecRate  the chatbot's in-memory RateLimiter                         *)
(*   SpecErr   the sources of the main backend's error responses and its   *)
(*             exception handlers                                          *)
(*   SpecTable TaskService and the chatbot's TodoService writing the       *)
(*             shared 'task' table                                         *)
(*   SpecUser  concurrent calls of UserService.create_user and update_user *)
(*   SpecAgent the chatbot's agent (chat/agent.py) processing one message  *)
(*   SpecChat  the chatbot's endpoints under /api/v1/chat                  *)
(*   SpecTools the MCP tools (mcp_server/server.py) called on sessions     *)
(*             with and without an owner                                   *)
(*   SpecAuth  the main backend's signup, forgot-password and              *)
(*             reset-password (api/auth_routes.py)                         *)
(*   SpecTodo  the in-memory todo app's TodoStorage (src/todo_app)         *)
(*                                                                         *)
(* Optional values (Python's Optional[T]) are sequences of length at most  *)
(* one: None is <<>> and a present value x is <<x>>.                       *)
(***************************************************************************)
EXTENDS Integers, Sequences, FiniteSets, TLC

\* ------------------------------------------------------------------------
\* Bounds of the model
\* ------------------------------------------------------------------------
MaxTasks == 2
\* How often the clock is advanced.
MaxTicks == 2
\* config.RATE_LIMIT_REQUESTS_PER_HOUR is read from the environment
\* (default "100"); the model runs with a small setting.
RATE_LIMIT_REQUESTS_PER_HOUR == 2

\* ------------------------------------------------------------------------
\* Program constants
\* ------------------------------------------------------------------------
TITLE_MIN_LENGTH == 1
TITLE_MAX_LENGTH == 100
DESCRIPTION_MAX_LENGTH == 1000
\* The window of the chat rate limiter, in seconds.
WINDOW_SECONDS == 3600

None == <<>>
Some(x) == <<x>>

RECURSIVE Rep(_)
Rep(n) == IF n = 0 THEN ""
          ELSE IF n % 2 = 0 THEN LET half == Rep(n \div 2) IN half \o half
          ELSE "x" \o Rep(n - 1)

\* Strings of the lengths at which the validators change their answer.
Title100 == Rep(TITLE_MAX_LENGTH)
Title101 == Rep(TITLE_MAX_LENGTH + 1)
Desc1001 == Rep(DESCRIPTION_MAX_LENGTH + 1)

Users == {"u1", "u2"}
Titles == {"", "a", Title100, Title101}

\* Task ids a request path can name: every id the table can ever hold.
TaskIds == 1..MaxTasks

VARIABLES tasks, nextId, last, resp, raised, created,
          requests, now, ticks, rl, allowedLog, denied

\* The main backend's accounts: the 'user' table, the calls of UserService
\* in flight, and the outcome of the latest step (a history variable).
VARIABLES users, nextUserId, userCalls, ures

\* The chatbot's tables chat_sessions, chat_messages and tool_invocations,
\* and the outcome of its latest call or request (a history variable).
VARIABLES sessions, chatMessages, invocations, chat, called

\* The main backend's password resets: the passwordresettoken table (a
\* token is its row's number), the time in hours, the outcome of the latest
\* request under /auth and, for each token, how often a reset with it was
\* answered 200 and how often one changed a password (history variables).
VARIABLES resetTokens, clock, auth, resetLog

\* The in-memory todo app (src/todo_app): TodoStorage's dictionary and
\* counter, the ids add_task has assigned, in order, and the outcome of
\* the latest call (history variables).
VARIABLES _tasks, _next_id, assigned, todo

taskVars == <<tasks, nextId, last, resp, raised, created>>
rateVars == <<requests, now, ticks, rl, allowedLog, denied>>
userVars == <<users, nextUserId, userCalls, ures>>
chatVars == <<sessions, chatMessages, invocations, chat, called>>
authVars == <<resetTokens, clock, auth, resetLog>>
todoVars == <<_tasks, _next_id, assigned, todo>>

\* What the steps of one part of the system leave alone.
taskFrame == <<rateVars, userVars, chatVars, authVars, todoVars>>
rateFrame == <<taskVars, userVars, chatVars, authVars, todoVars>>
userFrame == <<taskVars, rateVars, chatVars, authVars, todoVars>>

\* ------------------------------------------------------------------------
\* utils/validators.py
\* ------------------------------------------------------------------------
validate_task_data(title, description) ==
    (IF title = None THEN <<"Title cannot be empty">>
     ELSE IF Len(title[1]) < TITLE_MIN_LENGTH
          THEN <<"Title must be at least 1 character long">>
     ELSE IF Len(title[1]) > TITLE_MAX_LENGTH
          THEN <<"Title must be no more than 100 characters long">>
     ELSE <<>>)
    \o
    (IF description # None /\ Len(description[1]) > DESCRIPTION_MAX_LENGTH
     THEN <<"Description must be no more than 1000 characters long">>
     ELSE <<>>)

\* The (is_valid, error_message) pair is a record.
validate_task_title(title) ==
    IF title = None
    THEN [is_valid |-> FALSE, error_msg |-> "Title cannot be empty"]
    ELSE IF Len(title[1]) < TITLE_MIN_LENGTH
    THEN [is_valid |-> FALSE, error_msg |-> "Title must be at least 1 character long"]
    ELSE IF Len(title[1]) > TITLE_MAX_LENGTH
    THEN [is_valid |-> FALSE, error_msg |-> "Title must be no more than 100 characters long"]
    ELSE [is_valid |-> TRUE, error_msg |-> ""]

validate_task_description(description) ==
    LET d == IF description = None THEN "" ELSE description[1] IN
    IF Len(d) > DESCRIPTION_MAX_LENGTH
    THEN [is_valid |-> FALSE, error_msg |-> "Description must be no more than 1000 characters long"]
    ELSE [is_valid |-> TRUE, error_msg |-> ""]

\* ------------------------------------------------------------------------
\* models/task.py: the pydantic validation of the service models.  A model
\* that is not a table validates its fields when it is constructed.
\* ------------------------------------------------------------------------
\* TaskCreate(title=..., description=...): title is a required str.
TaskCreate_valid(title, description) ==
    /\ Len(title) >= TITLE_MIN_LENGTH
    /\ Len(title) <= TITLE_MAX_LENGTH
    /\ (description # None => Len(description[1]) <= DESCRIPTION_MAX_LENGTH)

\* TaskUpdate(title=..., description=..., completed=None): all optional.
TaskUpdate_valid(title, description) ==
    /\ (title # None => /\ Len(title[1]) >= TITLE_MIN_LENGTH
                        /\ Len(title[1]) <= TITLE_MAX_LENGTH)
    /\ (description # None => Len(description[1]) <= DESCRIPTION_MAX_LENGTH)

\* ------------------------------------------------------------------------
\* Exceptions.  An HTTPException's detail is either a string or a dict; the
\* dict is a record of optional entries (None: the key is absent).
\* ------------------------------------------------------------------------
DictDetail(code, message, timestamp, details) ==
    [isdict |-> TRUE, str |-> "", error_code |-> code, message |-> message,
     timestamp |-> timestamp, details |-> details]

StrDetail(s) ==
    [isdict |-> FALSE, str |-> s, error_code |-> None, message |-> None,
     timestamp |-> None, details |-> None]

HTTPException(status_code, detail) ==
    [type |-> "HTTPException", status_code |-> status_code, detail |-> detail]

\* utils/observability.py: the detail is ErrorResponse.model_dump(), which
\* always carries the four keys; "NOW" stands for utcnow().isoformat().
create_http_exception(status_code, error_code, message) ==
    HTTPException(status_code,
        DictDetail(Some(error_code), Some(message), Some("NOW"), Some("null")))

\* dict.get(key): None when the key is absent or holds null.
DictGet(entry) == IF entry = Some("null") THEN None ELSE entry

\* FastAPI's RequestValidationError and any other exception carry no status.
RequestValidationError ==
    [type |-> "RequestValidationError", status_code |-> 422, detail |-> StrDetail("")]

OtherException(name) ==
    [type |-> name, status_code |-> 500, detail |-> StrDetail("")]

\* ------------------------------------------------------------------------
\* Responses: the status, the keys of the JSON body, and the values the
\* properties read.  task is the returned TaskResponse, tasks the returned
\* TaskListResponse.
\* ------------------------------------------------------------------------
EnvelopeFields == {"error_code", "message", "timestamp", "details"}
TaskFields == {"id", "title", "description", "completed", "user_id",
               "created_at", "updated_at"}

JSONError(status, error_code, message) ==
    [status |-> status, fields |-> EnvelopeFields, error_code |-> error_code,
     message |-> message, task |-> None, tasks |-> {}]

JSONTask(status, task) ==
    [status |-> status, fields |-> TaskFields, error_code |-> "",
     message |-> "", task |-> Some(task), tasks |-> {}]

JSONTaskList(ts) ==
    [status |-> 200, fields |-> {"tasks"}, error_code |-> "",
     message |-> "", task |-> None, tasks |-> ts]

NoContent ==
    [status |-> 204, fields |-> {}, error_code |-> "", message |-> "",
     task |-> None, tasks |-> {}]

NoResponse ==
    [status |-> 0, fields |-> {}, error_code |-> "", message |-> "",
     task |-> None, tasks |-> {}]

\* ------------------------------------------------------------------------
\* api/error_handlers.py
\* ------------------------------------------------------------------------
\* ErrorResponse(...) validates its fields: error_code, message and
\* timestamp are required strings, details is optional.
ErrorResponse_valid(error_code, message, timestamp) ==
    error_code # None /\ message # None /\ timestamp # None

general_exception_handler(exc) ==
    JSONError(500, "INTERNAL_ERROR", "An internal server error occurred")

validation_exception_handler(exc) ==
    JSONError(422, "VALIDATION_ERROR", "Request validation failed")

\* Returns the response, or the exception the handler itself raises.
http_exception_handler(exc) ==
    IF exc.detail.isdict /\ exc.detail.error_code # None
    THEN LET error_code == DictGet(exc.detail.error_code)
             message == IF exc.detail.message = None
                        THEN Some("An unknown error occurred")
                        ELSE DictGet(exc.detail.message)
             timestamp == DictGet(exc.detail.timestamp)
         IN  IF ErrorResponse_valid(error_code, message, timestamp)
             THEN [exc |-> None,
                   response |-> JSONError(exc.status_code, error_code[1], message[1])]
             ELSE [exc |-> Some(OtherException("ValidationError")),
                   response |-> NoResponse]
    ELSE [exc |-> None,
          response |-> JSONError(exc.status_code, "HTTP_ERROR",
                           IF exc.detail.isdict THEN "{...}"
                           ELSE IF exc.detail.str # "" THEN exc.detail.str
                           ELSE "HTTP error occurred")]

\* setup_error_handlers: the handler registered for the exception's type
\* answers; an exception raised by a handler reaches the handler for
\* Exception.
handle_exception(exc) ==
    IF exc.type = "HTTPException"
    THEN LET h == http_exception_handler(exc) IN
         IF h.exc = None THEN h.response
         ELSE general_exception_handler(h.exc[1])
    ELSE IF exc.type = "RequestValidationError"
    THEN validation_exception_handler(exc)
    ELSE general_exception_handler(exc)

\* ------------------------------------------------------------------------
\* api/middleware.py
\* ------------------------------------------------------------------------
\* An Authorization header is absent (None) or <scheme> <token>.  A token
\* either verifies to a payload or does not; the payload may lack 'sub'.
Tokens == {[valid |-> FALSE, sub |-> None], [valid |-> TRUE, sub |-> None]}
          \cup {[valid |-> TRUE, sub |-> Some(u)] : u \in Users}

Header(scheme, token) == Some([scheme |-> scheme, token |-> token])

BearerFor(u) == Header("Bearer", [valid |-> TRUE, sub |-> Some(u)])

\* The headers get_current_user_id accepts, and those it rejects.
GoodHeaders == {BearerFor(u) : u \in Users}
BadHeaders == {None, Header("Basic", [valid |-> TRUE, sub |-> Some("u1")]),
               Header("Bearer", [valid |-> FALSE, sub |-> None]),
               Header("Bearer", [valid |-> TRUE, sub |-> None])}
AuthHeaders == GoodHeaders \cup BadHeaders

\* utils/security.py verify_token: the payload of a token that verifies,
\* None otherwise.
verify_token(token) ==
    IF token.valid THEN Some([sub |-> token.sub]) ELSE None

\* Mutant: a payload without 'sub' is not rejected.
get_current_user_id_no_sub_check(auth_header) ==
    IF auth_header = None \/ auth_header[1].scheme # "Bearer"
    THEN [exc |-> Some(create_http_exception(401, "UNAUTHORIZED", "Authentication required")),
          user_id |-> ""]
    ELSE LET payload == verify_token(auth_header[1].token) IN
         IF payload = None
         THEN [exc |-> Some(create_http_exception(401, "INVALID_TOKEN", "Invalid or expired token")),
               user_id |-> ""]
         ELSE [exc |-> None,
               user_id |-> IF payload[1].sub = None THEN "" ELSE payload[1].sub[1]]

\* Returns the user id, or the exception raised.
get_current_user_id(auth_header) ==
    IF auth_header = None \/ auth_header[1].scheme # "Bearer"
    THEN [exc |-> Some(create_http_exception(401, "UNAUTHORIZED", "Authentication required")),
          user_id |-> ""]
    ELSE LET payload == verify_token(auth_header[1].token) IN
         IF payload = None
         THEN [exc |-> Some(create_http_exception(401, "INVALID_TOKEN", "Invalid or expired token")),
               user_id |-> ""]
         ELSE IF payload[1].sub = None
         THEN [exc |-> Some(create_http_exception(401, "INVALID_TOKEN", "Invalid token: no user ID")),
               user_id |-> ""]
         ELSE [exc |-> None, user_id |-> payload[1].sub[1]]

\* ------------------------------------------------------------------------
\* services/task_service.py.  A row of the 'task' table is
\* [id, user_id, title, description, completed]; the table is a function
\* from the ids in use to rows.  Each operation returns the table after it,
\* the exception it raises (None: it returns) and the value it returns.
\* ------------------------------------------------------------------------
Row(id, user_id, title, description, completed) ==
    [id |-> id, user_id |-> user_id, title |-> title,
     description |-> description, completed |-> completed]

Put(store, row) == [i \in DOMAIN store \cup {row.id} |->
                        IF i = row.id THEN row ELSE store[i]]

Remove(store, id) == [i \in DOMAIN store \ {id} |-> store[i]]

\* Mutant: the query filters on the task id alone.
TaskService_get_task_by_id_any_owner(store, task_id, user_id) ==
    IF task_id \in DOMAIN store THEN Some(store[task_id]) ELSE None

TaskService_get_task_by_id(store, task_id, user_id) ==
    IF task_id \in DOMAIN store /\ store[task_id].user_id = user_id
    THEN Some(store[task_id])
    ELSE None

TaskService_get_all_tasks(store, user_id) ==
    {store[i] : i \in {j \in DOMAIN store : store[j].user_id = user_id}}

\* new_id is the uuid4 the Task model draws for the new row.
TaskService_create_task(store, new_id, user_id, title, description, completed) ==
    LET validation_errors == validate_task_data(Some(title), description) IN
    IF validation_errors # <<>>
    THEN [store |-> store, ret |-> None,
          exc |-> Some(HTTPException(422,
                     DictDetail(Some("VALIDATION_ERROR"), Some("Validation failed"),
                                None, Some("errors"))))]
    ELSE LET db_task == Row(new_id, user_id, title, description, completed) IN
         [store |-> Put(store, db_task), ret |-> Some(db_task), exc |-> None]

TaskService_update_task(store, task_id, user_id, title, description, completed) ==
    LET task == TaskService_get_task_by_id(store, task_id, user_id) IN
    IF task = None
    THEN [store |-> store, ret |-> None, exc |-> None]
    ELSE IF title # None /\ ~validate_task_title(title).is_valid
    THEN [store |-> store, ret |-> None,
          exc |-> Some(HTTPException(422,
                     DictDetail(Some("VALIDATION_ERROR"),
                                Some(validate_task_title(title).error_msg), None, None)))]
    ELSE IF description # None /\ ~validate_task_description(description).is_valid
    THEN [store |-> store, ret |-> None,
          exc |-> Some(HTTPException(422,
                     DictDetail(Some("VALIDATION_ERROR"),
                                Some(validate_task_description(description).error_msg),
                                None, None)))]
    ELSE LET updated == Row(task_id, user_id,
                            IF title # None THEN title[1] ELSE task[1].title,
                            IF description # None THEN description ELSE task[1].description,
                            IF completed # None THEN completed[1] ELSE task[1].completed)
         IN  [store |-> Put(store, updated), ret |-> Some(updated), exc |-> None]

\* ret is Some(TRUE) for True and None for False.
TaskService_delete_task(store, task_id, user_id) ==
    LET task == TaskService_get_task_by_id(store, task_id, user_id) IN
    IF task = None
    THEN [store |-> store, ret |-> None, exc |-> None]
    ELSE [store |-> Remove(store, task_id), ret |-> Some(TRUE), exc |-> None]

\* Mutant: the write reaches every task of the user, not only task_id.
TaskService_complete_task_all(store, task_id, user_id, completed) ==
    LET task == TaskService_get_task_by_id(store, task_id, user_id) IN
    IF task = None
    THEN [store |-> store, ret |-> None, exc |-> None]
    ELSE LET after == [i \in DOMAIN store |->
                          IF store[i].user_id = user_id
                          THEN [store[i] EXCEPT !.completed = completed]
                          ELSE store[i]]
         IN  [store |-> after, ret |-> Some(after[task_id]), exc |-> None]

TaskService_complete_task(store, task_id, user_id, completed) ==
    LET task == TaskService_get_task_by_id(store, task_id, user_id) IN
    IF task = None
    THEN [store |-> store, ret |-> None, exc |-> None]
    ELSE LET updated == [task[1] EXCEPT !.completed = completed] IN
         [store |-> Put(store, updated), ret |-> Some(updated), exc |-> None]

\* ------------------------------------------------------------------------
\* models/task_models.py: request bodies and the response model.  A body is
\* JSON that does not parse ("json_error"), JSON that does not fit the
\* request model ("schema_error": a required field missing, a field of the
\* wrong type), or a valid instance ("ok").
\* ------------------------------------------------------------------------
Body(kind, title, description, completed) ==
    [kind |-> kind, title |-> title, description |-> description,
     completed |-> completed]

NoBody == Body("none", None, None, FALSE)
\* The titles sent where senders of every kind are at work: an empty one,
\* a valid one and an overlong one.
RequestTitles == {"", "a", Title101}
BadBodies == {Body("json_error", None, None, FALSE),
              Body("schema_error", None, None, FALSE)}

\* TaskCreateRequest: title: str, description: Optional[str] = "".
\* The bodies the endpoints are sent: every kind of body, every title
\* length, an overlong description.
TaskCreateRequests ==
    BadBodies \cup {Body("ok", Some(t), None, FALSE) : t \in RequestTitles}
              \cup {Body("ok", Some("a"), Some(Desc1001), FALSE)}

\* TaskUpdateRequest: title and description optional, default None.
TaskUpdateRequests ==
    BadBodies \cup {Body("ok", Some(t), None, FALSE) : t \in RequestTitles}
              \cup {Body("ok", None, Some(Desc1001), FALSE)}

\* TaskCompleteRequest: completed: bool.
TaskCompleteRequests ==
    BadBodies \cup {Body("ok", None, None, c) : c \in BOOLEAN}

\* Bodies that pass every validation: the shortest title without a
\* description and the longest title with one; an update of the
\* description, and one the endpoint reads as no change.
ValidCreateRequests ==
    {Body("ok", Some("a"), None, FALSE), Body("ok", Some(Title100), Some("d"), FALSE)}

ValidUpdateRequests ==
    {Body("ok", None, Some("d"), FALSE), Body("ok", Some(""), Some(""), FALSE)}

ValidCompleteRequests == {Body("ok", None, None, c) : c \in BOOLEAN}

\* TaskResponse(...): the route sends 'task.description or ""'.
TaskResponse(task) ==
    [id |-> task.id, title |-> task.title,
     description |-> IF task.description = None THEN "" ELSE task.description[1],
     completed |-> task.completed, user_id |-> task.user_id]

\* ------------------------------------------------------------------------
\* api/task_routes.py.  FastAPI parses a JSON body first, then resolves the
\* dependencies (get_current_user_id), then validates the body against the
\* request model, and only then calls the endpoint function.
\* ------------------------------------------------------------------------
resolve_request(auth_header, body) ==
    IF body.kind = "json_error"
    THEN [exc |-> Some(RequestValidationError), current_user_id |-> ""]
    ELSE LET dep == get_current_user_id(auth_header) IN
         IF dep.exc # None
         THEN [exc |-> dep.exc, current_user_id |-> ""]
         ELSE IF body.kind = "schema_error"
         THEN [exc |-> Some(RequestValidationError), current_user_id |-> ""]
         ELSE [exc |-> None, current_user_id |-> dep.user_id]

Raise(store, exc) == [store |-> store, exc |-> Some(exc), response |-> NoResponse]
Return(store, response) == [store |-> store, exc |-> None, response |-> response]

Forbidden == create_http_exception(403, "FORBIDDEN", "Access denied to this user's tasks")
TaskNotFound == create_http_exception(404, "TASK_NOT_FOUND", "Task with specified ID not found")
InternalError(what) ==
    create_http_exception(500, "INTERNAL_ERROR",
                          "An unexpected error occurred during " \o what)

\* A path task id of 0 stands for a string that UUID() rejects.
PathTaskIds == 0..MaxTasks

create_task(store, new_id, current_user_id, user_id, body) ==
    IF current_user_id # user_id THEN Raise(store, Forbidden)
    ELSE IF ~TaskCreate_valid(body.title[1], body.description)
    THEN Raise(store, InternalError("task creation"))
    ELSE LET r == TaskService_create_task(store, new_id, user_id, body.title[1],
                                          body.description, FALSE) IN
         IF r.exc # None THEN Raise(store, r.exc[1])
         ELSE Return(r.store, JSONTask(201, TaskResponse(r.ret[1])))

get_all_tasks(store, current_user_id, user_id) ==
    IF current_user_id # user_id THEN Raise(store, Forbidden)
    ELSE Return(store, JSONTaskList(
             {TaskResponse(t) : t \in TaskService_get_all_tasks(store, user_id)}))

get_task_by_id(store, current_user_id, user_id, task_id) ==
    IF current_user_id # user_id THEN Raise(store, Forbidden)
    ELSE IF task_id = 0 THEN Raise(store, InternalError("getting task by ID"))
    ELSE LET task == TaskService_get_task_by_id(store, task_id, user_id) IN
         IF task = None THEN Raise(store, TaskNotFound)
         ELSE Return(store, JSONTask(200, TaskResponse(task[1])))

update_task(store, current_user_id, user_id, task_id, body) ==
    IF current_user_id # user_id THEN Raise(store, Forbidden)
    ELSE IF task_id = 0 THEN Raise(store, InternalError("updating task"))
    ELSE LET title_value == IF body.title # Some("") THEN body.title ELSE None
             description_value == IF body.description # Some("")
                                  THEN body.description ELSE None
         IN  IF ~TaskUpdate_valid(title_value, description_value)
             THEN Raise(store, InternalError("updating task"))
             ELSE LET r == TaskService_update_task(store, task_id, user_id,
                               title_value, description_value, None) IN
                  IF r.exc # None THEN Raise(store, r.exc[1])
                  ELSE IF r.ret = None THEN Raise(store, TaskNotFound)
                  ELSE Return(r.store, JSONTask(200, TaskResponse(r.ret[1])))

\* Mutant: the endpoint does not compare the caller with the path's user.
delete_task_unchecked(store, current_user_id, user_id, task_id) ==
    IF task_id = 0 THEN Raise(store, InternalError("deleting task"))
    ELSE LET r == TaskService_delete_task(store, task_id, user_id) IN
         IF r.ret = None THEN Raise(store, TaskNotFound)
         ELSE Return(r.store, NoContent)

delete_task(store, current_user_id, user_id, task_id) ==
    IF current_user_id # user_id THEN Raise(store, Forbidden)
    ELSE IF task_id = 0 THEN Raise(store, InternalError("deleting task"))
    ELSE LET r == TaskService_delete_task(store, task_id, user_id) IN
         IF r.ret = None THEN Raise(store, TaskNotFound)
         ELSE Return(r.store, NoContent)

complete_task(store, current_user_id, user_id, task_id, body) ==
    IF current_user_id # user_id THEN Raise(store, Forbidden)
    ELSE IF task_id = 0 THEN Raise(store, InternalError("completing task"))
    ELSE LET r == TaskService_complete_task(store, task_id, user_id, body.completed) IN
         IF r.ret = None THEN Raise(store, TaskNotFound)
         ELSE Return(r.store, JSONTask(200, TaskResponse(r.ret[1])))

\* ------------------------------------------------------------------------
\* The task endpoints as actions.  resp is the response to the request just
\* served and raised the exception that left the endpoint (None when it
\* returned).  Two history variables serve the properties: last describes
\* the request just served, and created holds, for each task created and
\* not since updated, completed or deleted, what create_task was called with.
\* ------------------------------------------------------------------------
\* The user a request is authenticated as, None when it is not.
\* That is the 'sub' of a verifiable token sent in a Bearer header.
AuthenticatedAs(auth_header) ==
    IF /\ auth_header # None
       /\ auth_header[1].scheme = "Bearer"
       /\ auth_header[1].token.valid
    THEN auth_header[1].token.sub
    ELSE None

\* What the path's task id names, seen from the path's user.
Target(store, user_id, task_id) ==
    IF task_id = 0 THEN "malformed"
    ELSE IF task_id \notin DOMAIN store THEN "absent"
    ELSE IF store[task_id].user_id = user_id THEN "own"
    ELSE "foreign"

\* Whether the lengths a body sends are within the limits of the task model.
LengthsWithinLimits(body) ==
    /\ (body.title # None => /\ Len(body.title[1]) >= 1
                             /\ Len(body.title[1]) <= 100)
    /\ (body.description # None => Len(body.description[1]) <= 1000)

\* How a request is authenticated relative to the user id of its path.
AuthOf(auth_header, user_id) ==
    LET caller == AuthenticatedAs(auth_header) IN
    IF caller = None THEN "none"
    ELSE IF caller[1] = user_id THEN "owner" ELSE "other"

Request(op, auth_header, user_id, target, body) ==
    [op |-> op, auth |-> AuthOf(auth_header, user_id), target |-> target,
     body |-> body.kind, lengths_ok |-> LengthsWithinLimits(body)]

NoRequest == Request("none", None, "", "none", NoBody)

Respond(out) ==
    IF out.exc = None THEN out.response ELSE handle_exception(out.exc[1])

Serve(request, out) ==
    /\ last' = request
    /\ tasks' = out.store
    /\ raised' = out.exc
    /\ resp' = Respond(out)
    /\ UNCHANGED taskFrame

\* A write that succeeded on task t ends the tracking of its creation.
Forget(t, out) ==
    created' = IF out.exc = None /\ t \in DOMAIN created
               THEN Remove(created, t) ELSE created

TaskInit ==
    /\ tasks = << >>
    /\ nextId = 1
    /\ last = NoRequest
    /\ resp = NoResponse
    /\ raised = None
    /\ created = << >>

CreateTask(h, u, b) ==
    /\ nextId <= MaxTasks
    /\ \E pre \in {resolve_request(h, b)} :
       \E out \in {IF pre.exc # None THEN Raise(tasks, pre.exc[1])
                   ELSE create_task(tasks, nextId, pre.current_user_id, u, b)} :
           /\ Serve(Request("create", h, u, "none", b), out)
           /\ IF out.exc = None
              THEN /\ nextId' = nextId + 1
                   /\ created' = Put(created, [id |-> nextId, user_id |-> u,
                                               title |-> b.title[1],
                                               description |-> b.description])
              ELSE UNCHANGED <<nextId, created>>

GetAllTasks(h, u) ==
    \E pre \in {resolve_request(h, NoBody)} :
    \E out \in {IF pre.exc # None THEN Raise(tasks, pre.exc[1])
                ELSE get_all_tasks(tasks, pre.current_user_id, u)} :
        /\ Serve(Request("list", h, u, "none", NoBody), out)
        /\ UNCHANGED <<nextId, created>>

GetTaskById(h, u, t) ==
    \E pre \in {resolve_request(h, NoBody)} :
    \E out \in {IF pre.exc # None THEN Raise(tasks, pre.exc[1])
                ELSE get_task_by_id(tasks, pre.current_user_id, u, t)} :
        /\ Serve(Request("get", h, u, Target(tasks, u, t), NoBody), out)
        /\ UNCHANGED <<nextId, created>>

UpdateTask(h, u, t, b) ==
    \E pre \in {resolve_request(h, b)} :
    \E out \in {IF pre.exc # None THEN Raise(tasks, pre.exc[1])
                ELSE update_task(tasks, pre.current_user_id, u, t, b)} :
        /\ Serve(Request("update", h, u, Target(tasks, u, t), b), out)
        /\ Forget(t, out)
        /\ UNCHANGED nextId

DeleteTask(h, u, t) ==
    \E pre \in {resolve_request(h, NoBody)} :
    \E out \in {IF pre.exc # None THEN Raise(tasks, pre.exc[1])
                ELSE delete_task(tasks, pre.current_user_id, u, t)} :
        /\ Serve(Request("delete", h, u, Target(tasks, u, t), NoBody), out)
        /\ Forget(t, out)
        /\ UNCHANGED nextId

CompleteTask(h, u, t, b) ==
    \E pre \in {resolve_request(h, b)} :
    \E out \in {IF pre.exc # None THEN Raise(tasks, pre.exc[1])
                ELSE complete_task(tasks, pre.current_user_id, u, t, b)} :
        /\ Serve(Request("complete", h, u, Target(tasks, u, t), b), out)
        /\ Forget(t, out)
        /\ UNCHANGED nextId

\* Spec: requests of every kind.  Those that authenticate vary over every
\* path user, task id and body; those that do not are sent to one path with
\* one sample of each kind of body.
Senders == {<<BearerFor(u), u>> : u \in Users}
           \cup {<<BearerFor("u2"), "u1">>}
           \cup {<<h, "u1">> : h \in BadHeaders}

Sendable(h, t, b) ==
    h \in BadHeaders => /\ t = 1
                        /\ b.title \in {None, Some("a")}
                        /\ b.description = None
                        /\ ~b.completed

Next ==
    \/ \E s \in Senders, b \in TaskCreateRequests :
           Sendable(s[1], 1, b) /\ CreateTask(s[1], s[2], b)
    \/ \E s \in Senders : GetAllTasks(s[1], s[2])
    \/ \E s \in Senders, t \in PathTaskIds :
           Sendable(s[1], t, NoBody) /\ GetTaskById(s[1], s[2], t)
    \/ \E s \in Senders, t \in PathTaskIds, b \in TaskUpdateRequests :
           Sendable(s[1], t, b) /\ UpdateTask(s[1], s[2], t, b)
    \/ \E s \in Senders, t \in PathTaskIds :
           Sendable(s[1], t, NoBody) /\ DeleteTask(s[1], s[2], t)
    \/ \E s \in Senders, t \in PathTaskIds, b \in TaskCompleteRequests :
           Sendable(s[1], t, b) /\ CompleteTask(s[1], s[2], t, b)

\* ------------------------------------------------------------------------
\* chatbot_backend/src/core/rate_limiter.py.  requests is the defaultdict
\* of timestamp lists (a user without an entry has the empty list), now the
\* value time.time() returns, in whole seconds.  is_allowed runs without a
\* suspension point, so a call is one step.
\* ------------------------------------------------------------------------
Min(S) == CHOOSE x \in S : \A y \in S : x <= y
Max(a, b) == IF a >= b THEN a ELSE b
Range(seq) == {seq[k] : k \in DOMAIN seq}

\* Mutant: the limit is compared with <= instead of <.
is_allowed_off_by_one(reqs, user_id, t) ==
    LET window_start == t - WINDOW_SECONDS
        kept == SelectSeq(reqs[user_id], LAMBDA ts : ts > window_start)
        current_requests == Len(kept)
    IN  IF current_requests <= RATE_LIMIT_REQUESTS_PER_HOUR
        THEN LET after == Append(kept, t)
                 remaining == RATE_LIMIT_REQUESTS_PER_HOUR - current_requests - 1
                 reset_time == Min(Range(after)) + WINDOW_SECONDS - t
             IN  [requests |-> [reqs EXCEPT ![user_id] = after],
                  allowed |-> TRUE,
                  remaining |-> Max(0, remaining),
                  reset_time |-> Max(0, reset_time)]
        ELSE [requests |-> [reqs EXCEPT ![user_id] = kept],
              allowed |-> FALSE,
              remaining |-> 0,
              reset_time |-> Max(0, Min(Range(kept)) + WINDOW_SECONDS - t)]

\* Mutant: a fixed window.  When the oldest counted request has left the
\* window the whole count is dropped.
is_allowed_fixed_window(reqs, user_id, t) ==
    LET window_start == t - WINDOW_SECONDS
        stored == reqs[user_id]
        kept == IF stored # << >> /\ Min(Range(stored)) > window_start
                THEN stored ELSE << >>
        current_requests == Len(kept)
    IN  IF current_requests < RATE_LIMIT_REQUESTS_PER_HOUR
        THEN LET after == Append(kept, t)
                 remaining == RATE_LIMIT_REQUESTS_PER_HOUR - current_requests - 1
                 reset_time == Min(Range(after)) + WINDOW_SECONDS - t
             IN  [requests |-> [reqs EXCEPT ![user_id] = after],
                  allowed |-> TRUE,
                  remaining |-> Max(0, remaining),
                  reset_time |-> Max(0, reset_time)]
        ELSE [requests |-> [reqs EXCEPT ![user_id] = kept],
              allowed |-> FALSE,
              remaining |-> 0,
              reset_time |-> Max(0, Min(Range(kept)) + WINDOW_SECONDS - t)]

\* Mutant: one list of timestamps is shared by all users.
is_allowed_shared(reqs, user_id, t) ==
    LET window_start == t - WINDOW_SECONDS
        shared == CHOOSE u \in DOMAIN reqs : \A v \in DOMAIN reqs : Len(reqs[u]) >= Len(reqs[v])
        kept == SelectSeq(reqs[shared], LAMBDA ts : ts > window_start)
        current_requests == Len(kept)
    IN  IF current_requests < RATE_LIMIT_REQUESTS_PER_HOUR
        THEN LET after == Append(kept, t)
                 remaining == RATE_LIMIT_REQUESTS_PER_HOUR - current_requests - 1
                 reset_time == Min(Range(after)) + WINDOW_SECONDS - t
             IN  [requests |-> [u \in DOMAIN reqs |-> after],
                  allowed |-> TRUE,
                  remaining |-> Max(0, remaining),
                  reset_time |-> Max(0, reset_time)]
        ELSE [requests |-> [u \in DOMAIN reqs |-> kept],
              allowed |-> FALSE,
              remaining |-> 0,
              reset_time |-> Max(0, Min(Range(kept)) + WINDOW_SECONDS - t)]

\* The record after the call, and the tuple (allowed, remaining, reset).
is_allowed(reqs, user_id, t) ==
    LET window_start == t - WINDOW_SECONDS
        kept == SelectSeq(reqs[user_id], LAMBDA ts : ts > window_start)
        current_requests == Len(kept)
    IN  IF current_requests < RATE_LIMIT_REQUESTS_PER_HOUR
        THEN LET after == Append(kept, t)
                 remaining == RATE_LIMIT_REQUESTS_PER_HOUR - current_requests - 1
                 reset_time == Min(Range(after)) + WINDOW_SECONDS - t
             IN  [requests |-> [reqs EXCEPT ![user_id] = after],
                  allowed |-> TRUE,
                  remaining |-> Max(0, remaining),
                  reset_time |-> Max(0, reset_time)]
        ELSE [requests |-> [reqs EXCEPT ![user_id] = kept],
              allowed |-> FALSE,
              remaining |-> 0,
              reset_time |-> Max(0, Min(Range(kept)) + WINDOW_SECONDS - t)]

RateInit ==
    /\ requests = [u \in Users |-> << >>]
    /\ now = 0
    /\ ticks = 0
    /\ rl = [user |-> "", at |-> 0, allowed |-> FALSE, remaining |-> 0,
             reset_time |-> 0, status |-> 0, after_denial |-> FALSE]
    /\ allowedLog = [u \in Users |-> << >>]
    /\ denied = [u \in Users |-> FALSE]

\* check_rate_limit(request, user_id): 429 when the call is denied.  The
\* history variables: allowedLog[u] lists the timestamps of every allowed
\* call of u, denied[u] tells whether u's latest call was denied.
CheckRateLimit(u) ==
    \E r \in {is_allowed(requests, u, now)} :
        /\ requests' = r.requests
        /\ rl' = [user |-> u, at |-> now, allowed |-> r.allowed,
                  remaining |-> r.remaining, reset_time |-> r.reset_time,
                  status |-> IF r.allowed THEN 200 ELSE 429,
                  after_denial |-> denied[u]]
        /\ allowedLog' = IF r.allowed
                         THEN [allowedLog EXCEPT ![u] = Append(@, now)]
                         ELSE allowedLog
        /\ denied' = [denied EXCEPT ![u] = ~r.allowed]
        /\ UNCHANGED <<now, ticks>>
        /\ UNCHANGED rateFrame

\* Time passes between calls, in steps that put two requests just less
\* than, exactly and just more than one window apart.
ClockSteps == {1799, 1801}

Tick(d) ==
    /\ ticks < MaxTicks
    /\ now' = now + d
    /\ ticks' = ticks + 1
    /\ UNCHANGED <<requests, rl, allowedLog, denied>>
    /\ UNCHANGED rateFrame

NextRate ==
    \/ \E u \in Users : CheckRateLimit(u)
    \/ \E d \in ClockSteps : Tick(d)

\* ------------------------------------------------------------------------
\* The accounts of the main backend: models/user.py and
\* services/user_service.py.  An email is its three parts (local@domain.tld),
\* a password its text and the character classes it contains.
\* ------------------------------------------------------------------------
MaxUsers == 2

Email(local, domain, tld) == [local |-> local, domain |-> domain, tld |-> tld]
Emails == {Email("a", "x", "io"), Email("b", "x", "io")}
MalformedEmail == Email("a", "x", "i")

Password(text, upper, lower, digit, special) ==
    [text |-> text, upper |-> upper, lower |-> lower, digit |-> digit,
     special |-> special]
StrongPassword == Password("Passw0rd!", TRUE, TRUE, TRUE, TRUE)
OtherStrongPassword == Password("N3wpassw!", TRUE, TRUE, TRUE, TRUE)
LongWeakPassword == Password("password", FALSE, TRUE, FALSE, FALSE)
ShortPassword == Password("Ab1!", TRUE, TRUE, TRUE, TRUE)
PASSWORD_MIN_LENGTH == 8

\* utils/validators.py, UserValidation.
validate_email(email) ==
    Len(email.local) >= 1 /\ Len(email.domain) >= 1 /\ Len(email.tld) >= 2

validate_password_strength(password) ==
    IF Len(password.text) < PASSWORD_MIN_LENGTH
    THEN [is_valid |-> FALSE, error_msg |-> "Password must be at least 8 characters long"]
    ELSE IF ~password.upper
    THEN [is_valid |-> FALSE, error_msg |-> "Password must contain at least one uppercase letter"]
    ELSE IF ~password.lower
    THEN [is_valid |-> FALSE, error_msg |-> "Password must contain at least one lowercase letter"]
    ELSE IF ~password.digit
    THEN [is_valid |-> FALSE, error_msg |-> "Password must contain at least one digit"]
    ELSE IF ~password.special
    THEN [is_valid |-> FALSE, error_msg |-> "Password must contain at least one special character"]
    ELSE [is_valid |-> TRUE, error_msg |-> ""]

\* utils/security.py: a hash identifies the password it was made from.
get_password_hash(password) == <<"hash", password.text>>
verify_password(password, password_hash) == password_hash = get_password_hash(password)

UserRow(id, email, password_hash) ==
    [id |-> id, email |-> email, password_hash |-> password_hash]

\* select(User).where(User.email == email).first()
get_user_by_email(table, email) ==
    LET found == {i \in DOMAIN table : table[i].email = email} IN
    IF found = {} THEN None ELSE Some(table[Min(found)])

get_user_by_id(table, user_id) ==
    IF user_id \in DOMAIN table THEN Some(table[user_id]) ELSE None

\* Mutant: the email column has no unique index.
User_commit_no_unique(table, row) ==
    [table |-> Put(table, row), exc |-> None]

\* session.add(row); session.commit() on the 'user' table.  email is
\* declared unique=True, so the database fails the commit of a row whose
\* email another row holds, and the transaction is rolled back.
User_commit(table, row) ==
    IF \E i \in DOMAIN table : i # row.id /\ table[i].email = row.email
    THEN [table |-> table, exc |-> Some(OtherException("IntegrityError"))]
    ELSE [table |-> Put(table, row), exc |-> None]

\* create_user up to the commit: the row to insert, or the exception.
UserService_create_user(table, new_id, email, password) ==
    IF ~validate_email(email)
    THEN [row |-> None, exc |-> Some(HTTPException(400, StrDetail("Invalid email format")))]
    ELSE IF ~validate_password_strength(password).is_valid
    THEN [row |-> None,
          exc |-> Some(HTTPException(400,
                     StrDetail(validate_password_strength(password).error_msg)))]
    ELSE IF get_user_by_email(table, email) # None
    THEN [row |-> None,
          exc |-> Some(HTTPException(400, StrDetail("User with this email already exists")))]
    ELSE [row |-> Some(UserRow(new_id, email, get_password_hash(password))),
          exc |-> None]

\* update_user up to the commit.  email and password are optional; row is
\* None with no exception when the user does not exist (the call returns
\* None).
UserService_update_user(table, user_id, email, password) ==
    LET user == get_user_by_id(table, user_id) IN
    IF user = None THEN [row |-> None, exc |-> None]
    ELSE IF email # None /\ ~validate_email(email[1])
    THEN [row |-> None, exc |-> Some(HTTPException(400, StrDetail("Invalid email format")))]
    ELSE IF /\ email # None
            /\ get_user_by_email(table, email[1]) # None
            /\ get_user_by_email(table, email[1])[1].id # user_id
    THEN [row |-> None,
          exc |-> Some(HTTPException(400, StrDetail("User with this email already exists")))]
    ELSE IF password # None /\ ~validate_password_strength(password[1]).is_valid
    THEN [row |-> None,
          exc |-> Some(HTTPException(400,
                     StrDetail(validate_password_strength(password[1]).error_msg)))]
    ELSE [row |-> Some(UserRow(user_id,
                               IF email # None THEN email[1] ELSE user[1].email,
                               IF password # None THEN get_password_hash(password[1])
                               ELSE user[1].password_hash)),
          exc |-> None]

\* authenticate_user(email, password).
UserService_authenticate_user(table, email, password) ==
    LET user == get_user_by_email(table, email) IN
    IF user = None \/ ~verify_password(password, user[1].password_hash)
    THEN None ELSE user

\* The calls in flight.  A call runs up to its commit in one step and
\* commits in another, so that the calls of two requests interleave.
Procs == {"p1", "p2"}
Idle == [op |-> "idle", row |-> None]

\* Whether a user other than id holds the email.
EmailTaken(table, id, email) ==
    \E i \in DOMAIN table : i # id /\ table[i].email = email

UserOutcome(op, email, taken, exc) ==
    [op |-> op, email |-> email, taken |-> taken, ok |-> exc = None,
     exc |-> IF exc = None THEN "" ELSE exc[1].type,
     status |-> IF exc = None THEN 200 ELSE exc[1].status_code]

UserInit ==
    /\ users = << >>
    /\ nextUserId = 1
    /\ userCalls = [p \in Procs |-> Idle]
    /\ ures = UserOutcome("none", None, FALSE, None)

CreateUserBegin(p, email, password) ==
    /\ userCalls[p].op = "idle"
    /\ nextUserId <= MaxUsers
    /\ \E r \in {UserService_create_user(users, nextUserId, email, password)} :
           /\ userCalls' = [userCalls EXCEPT ![p] =
                               IF r.exc = None THEN [op |-> "create", row |-> r.row]
                               ELSE Idle]
           /\ nextUserId' = IF r.exc = None THEN nextUserId + 1 ELSE nextUserId
           /\ ures' = UserOutcome("create", Some(email),
                                  EmailTaken(users, nextUserId, email), r.exc)
    /\ UNCHANGED users
    /\ UNCHANGED userFrame

UpdateUserBegin(p, user_id, email, password) ==
    /\ userCalls[p].op = "idle"
    /\ \E r \in {UserService_update_user(users, user_id, email, password)} :
           /\ userCalls' = [userCalls EXCEPT ![p] =
                               IF r.row # None THEN [op |-> "update", row |-> r.row]
                               ELSE Idle]
           /\ ures' = UserOutcome("update", email,
                                  /\ user_id \in DOMAIN users
                                  /\ email # None
                                  /\ EmailTaken(users, user_id, email[1]),
                                  r.exc)
    /\ UNCHANGED <<users, nextUserId>>
    /\ UNCHANGED userFrame

UserCommit(p) ==
    /\ userCalls[p].op # "idle"
    /\ \E row \in {userCalls[p].row[1]} :
       \E r \in {User_commit(users, row)} :
           /\ users' = r.table
           /\ ures' = UserOutcome(userCalls[p].op \o "_commit", Some(row.email),
                                  EmailTaken(users, row.id, row.email), r.exc)
    /\ userCalls' = [userCalls EXCEPT ![p] = Idle]
    /\ UNCHANGED nextUserId
    /\ UNCHANGED userFrame

\* SpecUser: concurrent calls of create_user and update_user.
NextUser ==
    \/ \E p \in Procs, e \in Emails \cup {MalformedEmail},
          pw \in {StrongPassword, LongWeakPassword} :
           CreateUserBegin(p, e, pw)
    \/ \E p \in Procs, u \in 1..MaxUsers, e \in {None} \cup {Some(x) : x \in Emails},
          pw \in {None, Some(OtherStrongPassword)} :
           UpdateUserBegin(p, u, e, pw)
    \/ \E p \in Procs : UserCommit(p)

\* ------------------------------------------------------------------------
\* api/auth_routes.py and models/password_reset.py: signup,
\* forgot-password and reset-password of the main backend.  Each request
\* is one step.
\* ------------------------------------------------------------------------
\* The most reset tokens and the latest hour of SpecAuth.
MaxResetTokens == 2
MaxClock == 2

\* timedelta(hours=1)
TOKEN_LIFETIME_HOURS == 1
\* len(new_password) < 8
RESET_PASSWORD_MIN_LENGTH == 8

PasswordResetToken(user_id, expires_at, used) ==
    [user_id |-> user_id, expires_at |-> expires_at, used |-> used]

\* A response whose body is a message or, for signup and signin, the
\* fields of the response model.
JSONMessage(status, message) ==
    [status |-> status, fields |-> {"message"}, error_code |-> "",
     message |-> message, task |-> None, tasks |-> {}]

RESET_LINK_SENT ==
    "If an account with that email exists, a password reset link has been sent."
RESET_DONE == "Password has been reset successfully"

\* What a request leaves: the user table, the token table, the response
\* and whether it changed a password hash.
AuthReturn(table, tokens, response) ==
    [table |-> table, tokens |-> tokens, response |-> response]

AuthError(table, tokens, status_code, error_code, message) ==
    AuthReturn(table, tokens,
               handle_exception(create_http_exception(status_code, error_code,
                                                      message)))

\* signup: the request model has validated the email and the strength of
\* the password; create_user commits the row.
signup(table, new_id, email, password) ==
    LET r == UserService_create_user(table, new_id, email, password)
    IN  IF r.exc # None
        THEN [table |-> table, response |-> handle_exception(r.exc[1])]
        ELSE LET c == User_commit(table, r.row[1])
             IN  IF c.exc # None
                 THEN [table |-> table,
                       response |-> handle_exception(
                           create_http_exception(500, "INTERNAL_ERROR",
                               "An unexpected error occurred during signup"))]
                 ELSE [table |-> c.table, response |-> JSONMessage(201, "")]

\* Mutant: an email without an account is answered 404.
forgot_password_revealing(table, tokens, email, utcnow) ==
    LET user == get_user_by_email(table, email)
    IN  IF user = None
        THEN AuthError(table, tokens, 404, "USER_NOT_FOUND", "No such account")
        ELSE AuthReturn(table,
                        Append(tokens,
                               PasswordResetToken(user[1].id,
                                                  utcnow + TOKEN_LIFETIME_HOURS,
                                                  FALSE)),
                        JSONMessage(200, RESET_LINK_SENT))

\* forgot_password: secrets.token_urlsafe(32) is a token no row holds.
forgot_password(table, tokens, email, utcnow) ==
    LET user == get_user_by_email(table, email)
    IN  IF user = None
        THEN AuthReturn(table, tokens, JSONMessage(200, RESET_LINK_SENT))
        ELSE AuthReturn(table,
                        Append(tokens,
                               PasswordResetToken(user[1].id,
                                                  utcnow + TOKEN_LIFETIME_HOURS,
                                                  FALSE)),
                        JSONMessage(200, RESET_LINK_SENT))

\* The columns of the user table (models/user.py).
UserFields == {"id", "email", "password_hash"}

\* user.<name> = value on a row of the user table.  The model has no field
\* hashed_password: the assignment raises ValueError, or, for a model
\* that admits extra attributes, sets an attribute that is no column and
\* is not written (extra_allowed).
User_setattr(user, name, value, extra_allowed) ==
    IF name \in UserFields
    THEN [user |-> [user EXCEPT ![name] = value], exc |-> None]
    ELSE IF extra_allowed
    THEN [user |-> user, exc |-> None]
    ELSE [user |-> user, exc |-> Some(OtherException("ValueError"))]

\* Mutant: a token that was used is accepted again.
reset_password_reusable(table, tokens, token, new_password, utcnow, extra_allowed) ==
    IF token \notin DOMAIN tokens
    THEN AuthError(table, tokens, 400, "INVALID_TOKEN",
                   "Invalid or expired password reset token")
    ELSE IF tokens[token].expires_at < utcnow
    THEN AuthError(table, [tokens EXCEPT ![token].used = TRUE], 400,
                   "EXPIRED_TOKEN", "Password reset token has expired")
    ELSE IF Len(new_password.text) < RESET_PASSWORD_MIN_LENGTH
    THEN AuthError(table, tokens, 400, "WEAK_PASSWORD",
                   "Password must be at least 8 characters long")
    ELSE LET user == get_user_by_id(table, tokens[token].user_id)
         IN  IF user = None
             THEN AuthError(table, tokens, 400, "USER_NOT_FOUND",
                            "User associated with this reset token was not found")
             ELSE LET set == User_setattr(user[1], "hashed_password",
                                          get_password_hash(new_password),
                                          extra_allowed)
                  IN  IF set.exc # None
                      THEN AuthError(table, tokens, 500, "INTERNAL_ERROR",
                               "An unexpected error occurred during password reset")
                      ELSE AuthReturn(Put(table, set.user),
                                      [tokens EXCEPT ![token].used = TRUE],
                                      JSONMessage(200, RESET_DONE))

reset_password(table, tokens, token, new_password, utcnow, extra_allowed) ==
    IF token \notin DOMAIN tokens
    THEN AuthError(table, tokens, 400, "INVALID_TOKEN",
                   "Invalid or expired password reset token")
    ELSE IF tokens[token].expires_at < utcnow
    THEN AuthError(table, [tokens EXCEPT ![token].used = TRUE], 400,
                   "EXPIRED_TOKEN", "Password reset token has expired")
    ELSE IF tokens[token].used
    THEN AuthError(table, tokens, 400, "TOKEN_USED",
                   "Password reset token has already been used")
    ELSE IF Len(new_password.text) < RESET_PASSWORD_MIN_LENGTH
    THEN AuthError(table, tokens, 400, "WEAK_PASSWORD",
                   "Password must be at least 8 characters long")
    ELSE LET user == get_user_by_id(table, tokens[token].user_id)
         IN  IF user = None
             THEN AuthError(table, tokens, 400, "USER_NOT_FOUND",
                            "User associated with this reset token was not found")
             ELSE LET set == User_setattr(user[1], "hashed_password",
                                          get_password_hash(new_password),
                                          extra_allowed)
                  IN  IF set.exc # None
                      THEN AuthError(table, tokens, 500, "INTERNAL_ERROR",
                               "An unexpected error occurred during password reset")
                      ELSE AuthReturn(Put(table, set.user),
                                      [tokens EXCEPT ![token].used = TRUE],
                                      JSONMessage(200, RESET_DONE))

\* used: the request came with a token that was marked used.
AuthOutcome(op, email, token, password, used, response) ==
    [op |-> op, email |-> email, token |-> token, password |-> password,
     used |-> used, response |-> response]

AuthInit ==
    /\ resetTokens = << >>
    /\ clock = 0
    /\ auth = AuthOutcome("none", None, None, None, FALSE, NoResponse)
    /\ resetLog = << >>

authFrame == <<taskVars, rateVars, chatVars, userCalls, ures, todoVars>>

Signup(email, password) ==
    /\ nextUserId <= MaxUsers
    /\ \E out \in {signup(users, nextUserId, email, password)} :
           /\ users' = out.table
           /\ nextUserId' = IF out.response.status = 201 THEN nextUserId + 1
                            ELSE nextUserId
           /\ auth' = AuthOutcome("signup", Some(email), None, Some(password),
                                  FALSE, out.response)
    /\ UNCHANGED <<resetTokens, clock, resetLog>>
    /\ UNCHANGED authFrame

ForgotPassword(email) ==
    /\ \E out \in {forgot_password(users, resetTokens, email, clock)} :
           /\ Len(out.tokens) <= MaxResetTokens
           /\ resetTokens' = out.tokens
           /\ resetLog' = IF Len(out.tokens) > Len(resetTokens)
                          THEN Append(resetLog, [ok |-> 0, changed |-> 0])
                          ELSE resetLog
           /\ auth' = AuthOutcome("forgot_password", Some(email), None, None,
                                  FALSE, out.response)
    /\ UNCHANGED <<users, nextUserId, clock>>
    /\ UNCHANGED authFrame

ResetPassword(token, new_password) ==
    /\ \E extra_allowed \in BOOLEAN :
       \E out \in {reset_password(users, resetTokens, token, new_password, clock,
                                  extra_allowed)} :
           /\ users' = out.table
           /\ resetTokens' = out.tokens
           /\ resetLog' =
                  IF token \notin DOMAIN resetLog THEN resetLog
                  ELSE [resetLog EXCEPT
                           ![token].ok = IF out.response.status = 200
                                         THEN @ + 1 ELSE @,
                           ![token].changed = IF out.table # users
                                              THEN @ + 1 ELSE @]
           /\ auth' = AuthOutcome("reset_password", None, Some(token),
                                  Some(new_password),
                                  token \in DOMAIN resetTokens
                                      /\ resetTokens[token].used,
                                  out.response)
    /\ UNCHANGED <<nextUserId, clock>>
    /\ UNCHANGED authFrame

\* An hour passes.
Hour ==
    /\ clock < MaxClock
    /\ clock' = clock + 1
    /\ UNCHANGED <<users, nextUserId, resetTokens, auth, resetLog>>
    /\ UNCHANGED authFrame

\* The passwords of the reset requests: too short, of 8 characters, longer.
ResetPasswords == {ShortPassword, LongWeakPassword, OtherStrongPassword}

\* SpecAuth: accounts sign up, ask for reset tokens and use them
\* while the hours pass.
NextAuth ==
    \/ \E e \in Emails : Signup(e, StrongPassword)
    \/ \E e \in Emails : ForgotPassword(e)
    \/ \E t \in 1..MaxResetTokens, pw \in ResetPasswords : ResetPassword(t, pw)
    \/ Hour

\* ------------------------------------------------------------------------
\* src/todo_app/models.py and storage.py: the in-memory todo app.
\* ------------------------------------------------------------------------
\* The ids SpecTodo lets add_task assign.
MaxTodoIds == 3

\* models.py Task.__init__: 1 <= len(title) <= 100, len(description) <= 500
APP_TITLE_MAX_LENGTH == 100
APP_DESCRIPTION_MAX_LENGTH == 500

RECURSIVE Repeat(_, _)
Repeat(c, n) ==
    IF n = 0 THEN ""
    ELSE LET half == Repeat(c, n \div 2)
         IN  IF n % 2 = 0 THEN half \o half ELSE half \o half \o c

LongTodoTitle == Repeat("t", APP_TITLE_MAX_LENGTH + 1)
LongTodoDescription == Repeat("d", APP_DESCRIPTION_MAX_LENGTH + 1)

\* Task(task_id, title, description): the task, or the ValueError raised.
Task_init(task_id, title, description) ==
    IF ~(1 <= Len(title) /\ Len(title) <= APP_TITLE_MAX_LENGTH)
    THEN [task |-> None, exc |-> "ValueError"]
    ELSE IF Len(description) > APP_DESCRIPTION_MAX_LENGTH
    THEN [task |-> None, exc |-> "ValueError"]
    ELSE [task |-> Some([id |-> task_id, title |-> title,
                         description |-> description, completed |-> FALSE]),
          exc |-> ""]

\* What a call leaves: the dictionary, the counter, the task returned and
\* the exception raised ("" for none).
StorageReturn(ts, next_id, ret, exc) ==
    [tasks |-> ts, next_id |-> next_id, ret |-> ret, exc |-> exc]

\* Mutant: the new id is the number of stored tasks plus one.
TodoStorage_add_task_by_count(ts, next_id, title, description) ==
    LET id == Cardinality(DOMAIN ts) + 1
        new_task == Task_init(id, title, description)
    IN  IF new_task.exc # ""
        THEN StorageReturn(ts, next_id, None, new_task.exc)
        ELSE StorageReturn((id :> new_task.task[1]) @@ ts, next_id + 1,
                           new_task.task, "")

TodoStorage_add_task(ts, next_id, title, description) ==
    LET new_task == Task_init(next_id, title, description)
    IN  IF new_task.exc # ""
        THEN StorageReturn(ts, next_id, None, new_task.exc)
        ELSE StorageReturn((next_id :> new_task.task[1]) @@ ts, next_id + 1,
                           new_task.task, "")

\* title and description are optional.  A valid title is stored before
\* the description is looked at.
TodoStorage_update_task(ts, next_id, task_id, title, description) ==
    IF task_id \notin DOMAIN ts
    THEN StorageReturn(ts, next_id, None, "TaskNotFoundError")
    ELSE IF /\ title # None
            /\ ~(1 <= Len(title[1]) /\ Len(title[1]) <= APP_TITLE_MAX_LENGTH)
    THEN StorageReturn(ts, next_id, None, "InvalidTaskError")
    ELSE LET titled == IF title = None THEN ts
                       ELSE [ts EXCEPT ![task_id].title = title[1]]
         IN  IF /\ description # None
                /\ Len(description[1]) > APP_DESCRIPTION_MAX_LENGTH
             THEN StorageReturn(titled, next_id, None, "InvalidTaskError")
             ELSE LET described ==
                          IF description = None THEN titled
                          ELSE [titled EXCEPT ![task_id].description = description[1]]
                  IN  StorageReturn(described, next_id, Some(described[task_id]), "")

TodoStorage_delete_task(ts, next_id, task_id) ==
    IF task_id \notin DOMAIN ts
    THEN StorageReturn(ts, next_id, None, "TaskNotFoundError")
    ELSE StorageReturn([i \in DOMAIN ts \ {task_id} |-> ts[i]], next_id, None, "")

TodoStorage_mark_task_complete(ts, next_id, task_id) ==
    IF task_id \notin DOMAIN ts
    THEN StorageReturn(ts, next_id, None, "TaskNotFoundError")
    ELSE StorageReturn([ts EXCEPT ![task_id].completed = TRUE], next_id,
                       Some([ts[task_id] EXCEPT !.completed = TRUE]), "")

TodoStorage_mark_task_incomplete(ts, next_id, task_id) ==
    IF task_id \notin DOMAIN ts
    THEN StorageReturn(ts, next_id, None, "TaskNotFoundError")
    ELSE StorageReturn([ts EXCEPT ![task_id].completed = FALSE], next_id,
                       Some([ts[task_id] EXCEPT !.completed = FALSE]), "")

\* TodoStorage.__init__
TodoInit ==
    /\ _tasks = << >>
    /\ _next_id = 1
    /\ assigned = << >>
    /\ todo = [op |-> "none", task_id |-> None, exc |-> ""]

todoFrame == <<taskVars, rateVars, userVars, chatVars, authVars>>

\* A call of the storage returned out.
Stored(op, task_id, out) ==
    /\ _tasks' = out.tasks
    /\ _next_id' = out.next_id
    /\ todo' = [op |-> op, task_id |-> task_id, exc |-> out.exc]
    /\ UNCHANGED todoFrame

AddTask(title, description) ==
    /\ \E out \in {TodoStorage_add_task(_tasks, _next_id, title, description)} :
           /\ out.next_id <= MaxTodoIds + 1
           /\ assigned' = IF out.ret = None THEN assigned
                          ELSE Append(assigned, out.ret[1].id)
           /\ Stored("add_task", IF out.ret = None THEN None
                                 ELSE Some(out.ret[1].id), out)

StorageUpdateTask(task_id, title, description) ==
    /\ assigned' = assigned
    /\ Stored("update_task", Some(task_id),
              TodoStorage_update_task(_tasks, _next_id, task_id, title, description))

StorageDeleteTask(task_id) ==
    /\ assigned' = assigned
    /\ Stored("delete_task", Some(task_id),
              TodoStorage_delete_task(_tasks, _next_id, task_id))

MarkTaskComplete(task_id) ==
    /\ assigned' = assigned
    /\ Stored("mark_task_complete", Some(task_id),
              TodoStorage_mark_task_complete(_tasks, _next_id, task_id))

MarkTaskIncomplete(task_id) ==
    /\ assigned' = assigned
    /\ Stored("mark_task_incomplete", Some(task_id),
              TodoStorage_mark_task_incomplete(_tasks, _next_id, task_id))

\* SpecTodo: the operations of the storage, with titles and descriptions
\* that are valid, empty and too long.
NextTodo ==
    \/ \E title \in {"", "a", LongTodoTitle},
          description \in {"", LongTodoDescription} :
           AddTask(title, description)
    \/ \E t \in 1..MaxTodoIds,
          title \in {None, Some("b"), Some("")},
          description \in {None, Some("d"), Some(LongTodoDescription)} :
           StorageUpdateTask(t, title, description)
    \/ \E t \in 1..MaxTodoIds : StorageDeleteTask(t)
    \/ \E t \in 1..MaxTodoIds : MarkTaskComplete(t)
    \/ \E t \in 1..MaxTodoIds : MarkTaskIncomplete(t)

\* The chatbot before its first request.
ChatOutcome(op, user_id, session_id, message, status, code, handlers, tools, returned) ==
    [op |-> op, user_id |-> user_id, session_id |-> session_id,
     message |-> message, status |-> status, code |-> code,
     handlers |-> handlers, tools |-> tools, returned |-> returned]

NoChat == ChatOutcome("none", None, None, << >>, 0, "", << >>, << >>, << >>)

ChatInit ==
    /\ sessions = << >>
    /\ chatMessages = << >>
    /\ invocations = << >>
    /\ chat = NoChat
    /\ called = [calls |-> 0, tool_name |-> "", session_id |-> None,
                 arguments |-> << >>,
                 success |-> FALSE, code |-> "", tasks |-> << >>, service |-> ""]

Init == TaskInit /\ RateInit /\ UserInit /\ ChatInit /\ AuthInit /\ TodoInit

vars == <<taskVars, rateVars, userVars, chatVars, authVars, todoVars>>

Spec == Init /\ [][Next]_vars

SpecRate == Init /\ [][NextRate]_vars

SpecUser == Init /\ [][NextUser]_vars

SpecAuth == Init /\ [][NextAuth]_vars

SpecTodo == Init /\ [][NextTodo]_vars

\* SpecOwner: every request is authenticated as the user of its path, so
\* each one is a call of the TaskService operation by that user.
NextOwner ==
    \/ \E u \in Users, b \in ValidCreateRequests : CreateTask(BearerFor(u), u, b)
    \/ \E u \in Users : GetAllTasks(BearerFor(u), u)
    \/ \E u \in Users, t \in TaskIds : GetTaskById(BearerFor(u), u, t)
    \/ \E u \in Users, t \in TaskIds, b \in ValidUpdateRequests :
           UpdateTask(BearerFor(u), u, t, b)
    \/ \E u \in Users, t \in TaskIds : DeleteTask(BearerFor(u), u, t)
    \/ \E u \in Users, t \in TaskIds, b \in ValidCompleteRequests :
           CompleteTask(BearerFor(u), u, t, b)

SpecOwner == Init /\ [][NextOwner]_vars

\* ------------------------------------------------------------------------
\* Calls of the services themselves.  The main backend's TaskService and
\* the chatbot's TodoService write the same 'task' table.
\* ------------------------------------------------------------------------
Descriptions == {None, Some("d"), Some(Desc1001)}
\* What an update is called with: a field left out, a valid value, values
\* outside the limits.
UpdateTitles == {None, Some(""), Some("a"), Some(Title101)}
UpdateDescriptions == {None, Some(Desc1001)}

\* chatbot_backend models/task.py: Task is a table model, so Task(...) and
\* the assignment of a field validate nothing.  The lengths of the columns
\* are the database's to enforce: a database that checks VARCHAR lengths
\* fails the commit, one that does not (SQLite) stores the row.
Task_column_overflow(title, description) ==
    \/ Len(title) > TITLE_MAX_LENGTH
    \/ description # None /\ Len(description[1]) > DESCRIPTION_MAX_LENGTH

\* chatbot_backend services/todo_service.py.  ret is the task of a
\* {"success": True} result, None otherwise.
TodoService_create_task(store, new_id, user_id, title, description, enforced) ==
    LET db_task == Row(new_id, user_id, title,
                       IF description = None THEN Some("") ELSE description,
                       FALSE)
    IN  IF enforced /\ Task_column_overflow(db_task.title, db_task.description)
        THEN [store |-> store, ret |-> None, exc |-> None]
        ELSE [store |-> Put(store, db_task), ret |-> Some(db_task), exc |-> None]

TodoService_update_task(store, task_id, user_id, title, description, enforced) ==
    IF ~(task_id \in DOMAIN store /\ store[task_id].user_id = user_id)
    THEN [store |-> store, ret |-> None, exc |-> None]
    ELSE LET db_task == Row(task_id, user_id,
                            IF title # None THEN title[1] ELSE store[task_id].title,
                            IF description # None THEN description
                            ELSE store[task_id].description,
                            store[task_id].completed)
         IN  IF enforced /\ Task_column_overflow(db_task.title, db_task.description)
             THEN [store |-> store, ret |-> None,
                   exc |-> Some(OtherException("DataError"))]
             ELSE [store |-> Put(store, db_task), ret |-> Some(db_task), exc |-> None]

\* The description of a call of a service by user_id for itself.
ServiceCall(op, target, title, description) ==
    [op |-> op, auth |-> "owner", target |-> target, body |-> "ok",
     lengths_ok |-> LengthsWithinLimits(Body("ok", title, description, FALSE))]

\* A service was called and what it raised, if anything, was handled by the
\* handlers of the application.
Call(call, out) ==
    /\ last' = call
    /\ tasks' = out.store
    /\ raised' = out.exc
    /\ resp' = IF out.exc = None THEN NoResponse ELSE handle_exception(out.exc[1])
    /\ UNCHANGED taskFrame

Track(id, user_id, title, description, out) ==
    IF out.exc = None /\ out.ret # None
    THEN /\ nextId' = nextId + 1
         /\ created' = Put(created, [id |-> id, user_id |-> user_id,
                                     title |-> title,
                                     description |-> out.ret[1].description])
    ELSE UNCHANGED <<nextId, created>>

ServiceCreateTask(u, title, description) ==
    /\ nextId <= MaxTasks
    /\ \E out \in {TaskService_create_task(tasks, nextId, u, title, description, FALSE)} :
           /\ Call(ServiceCall("TaskService.create_task", "none", Some(title), description), out)
           /\ Track(nextId, u, title, description, out)

ServiceUpdateTask(u, t, title, description) ==
    \E out \in {TaskService_update_task(tasks, t, u, title, description, None)} :
        /\ Call(ServiceCall("TaskService.update_task", Target(tasks, u, t), title, description), out)
        /\ created' = IF out.exc = None /\ out.ret # None /\ t \in DOMAIN created
                      THEN Remove(created, t) ELSE created
        /\ UNCHANGED nextId

TodoCreateTask(u, title, description) ==
    /\ nextId <= MaxTasks
    /\ \E enforced \in BOOLEAN :
       \E out \in {TodoService_create_task(tasks, nextId, u, title, description, enforced)} :
           /\ Call(ServiceCall("TodoService.create_task", "none", Some(title), description), out)
           /\ Track(nextId, u, title, description, out)

TodoUpdateTask(u, t, title, description) ==
    \E enforced \in BOOLEAN :
    \E out \in {TodoService_update_task(tasks, t, u, title, description, enforced)} :
        /\ Call(ServiceCall("TodoService.update_task", Target(tasks, u, t), title, description), out)
        /\ created' = IF out.exc = None /\ out.ret # None /\ t \in DOMAIN created
                      THEN Remove(created, t) ELSE created
        /\ UNCHANGED nextId

\* SpecTable: creates and updates through both services.
NextTable ==
    \/ \E u \in Users, title \in Titles, d \in Descriptions :
           ServiceCreateTask(u, title, d)
    \/ \E u \in Users, t \in TaskIds, title \in UpdateTitles,
          d \in UpdateDescriptions :
           ServiceUpdateTask(u, t, title, d)
    \/ \E u \in Users, title \in Titles, d \in Descriptions :
           TodoCreateTask(u, title, d)
    \/ \E u \in Users, t \in TaskIds, title \in UpdateTitles,
          d \in UpdateDescriptions :
           TodoUpdateTask(u, t, title, d)

SpecTable == Init /\ [][NextTable]_vars

\* Exceptions raised outside the task services: services/user_service.py
\* raises HTTPException with a string detail, FastAPI raises
\* RequestValidationError, and anything else is unhandled.
OtherRaised ==
    {HTTPException(400, StrDetail("Invalid email format")),
     HTTPException(400, StrDetail("User with this email already exists")),
     RequestValidationError,
     OtherException("OperationalError")}

HandleRaised(exc) ==
    /\ Call(ServiceCall("raise", "none", None, None),
            [store |-> tasks, ret |-> None, exc |-> Some(exc)])
    /\ UNCHANGED <<nextId, created>>

\* SpecErr: the sources of error responses.  The task services called with
\* any title and description, one endpoint requested by any sender, and the
\* exceptions raised elsewhere.
NextErr ==
    \/ \E u \in Users, title \in Titles, d \in Descriptions :
           ServiceCreateTask(u, title, d)
    \/ \E u \in Users, t \in TaskIds, title \in UpdateTitles,
          d \in UpdateDescriptions :
           ServiceUpdateTask(u, t, title, d)
    \/ \E s \in Senders, t \in PathTaskIds : GetTaskById(s[1], s[2], t)
    \/ \E exc \in OtherRaised : HandleRaised(exc)

SpecErr == Init /\ [][NextErr]_vars

\* ------------------------------------------------------------------------
\* The chatbot backend (chatbot_backend/src): chat sessions and messages
\* (services/chat_service.py), the MCP tools (mcp_server/server.py) and the
\* agent (chat/agent.py).  db is the database as one record: the tables
\* chat_sessions, chat_messages, tool_invocations and the 'task' table
\* with the next free task id.
\* ------------------------------------------------------------------------
MaxSessions == 2
\* The longest message, in words.
MaxWords == 3

SessionIds == 1..MaxSessions

ChatSession(user_id, is_active) == [user_id |-> user_id, is_active |-> is_active]
ChatMessage(session_id, role, content) ==
    [session_id |-> session_id, role |-> role, content |-> content]
ToolInvocation(session_id, tool_name, status) ==
    [session_id |-> session_id, tool_name |-> tool_name, status |-> status]

Database(ss, ms, ts, nid, inv) ==
    [sessions |-> ss, messages |-> ms, tasks |-> ts, nextId |-> nid,
     invocations |-> inv]

\* The value of a nullable column: SQL NULL for None.
ColumnValue(optional) == IF optional = None THEN "NULL" ELSE optional[1]

\* uuid4(): an id no session has.
NewSessionId(table) == Cardinality(DOMAIN table) + 1

ChatService_create_session(db, user_id) ==
    [db EXCEPT !.sessions = (NewSessionId(@) :> ChatSession(Some(user_id), TRUE)) @@ @]

\* ChatSession.user_id is declared nullable=False: a table created from
\* the model rejects the row (not_null), a table whose column admits NULL
\* stores it.
ChatService_create_anonymous_session(db, not_null) ==
    IF not_null
    THEN [db |-> db, exc |-> Some(OtherException("IntegrityError"))]
    ELSE [db |-> [db EXCEPT !.sessions =
                      (NewSessionId(@) :> ChatSession(None, TRUE)) @@ @],
          exc |-> None]

\* Mutant: the query filters on the session id alone.
ChatService_get_session_for_user_any_owner(table, session_id, user_id) ==
    IF session_id \in DOMAIN table THEN Some(table[session_id]) ELSE None

ChatService_get_session_for_user(table, session_id, user_id) ==
    IF session_id \in DOMAIN table /\ table[session_id].user_id = Some(user_id)
    THEN Some(table[session_id])
    ELSE None

ChatService_validate_user_owns_session(table, user_id, session_id) ==
    ChatService_get_session_for_user(table, session_id, user_id) # None

ChatService_deactivate_session(db, session_id) ==
    IF session_id \notin DOMAIN db.sessions
    THEN [db |-> db, ret |-> FALSE]
    ELSE [db |-> [db EXCEPT !.sessions[session_id].is_active = FALSE],
          ret |-> TRUE]

\* add_message and add_tool_invocation raise ValueError for a session that
\* does not exist; every call below is on a session of the table.
ChatService_add_message(db, session_id, role, content) ==
    [db EXCEPT !.messages = Append(@, ChatMessage(session_id, role, content))]

ChatService_get_messages(db, session_id) ==
    SelectSeq(db.messages, LAMBDA m : m.session_id = session_id)

ChatService_add_tool_invocation(db, session_id, tool_name, status) ==
    [db EXCEPT !.invocations = Append(@, ToolInvocation(session_id, tool_name, status))]

\* ------------------------------------------------------------------------
\* services/todo_service.py: the operations the tools call besides
\* create_task and update_task.  Rows are listed in the order of their ids.
\* ------------------------------------------------------------------------
RECURSIVE RowsOf(_, _)
RowsOf(store, ids) ==
    IF ids = {} THEN << >>
    ELSE LET i == Min(ids) IN <<store[i]>> \o RowsOf(store, ids \ {i})

TodoService_list_tasks(store, user_id, status) ==
    RowsOf(store, {i \in DOMAIN store :
                      /\ store[i].user_id = user_id
                      /\ status = "completed" => store[i].completed
                      /\ status = "pending" => ~store[i].completed})

TodoService_get_task(store, task_id, user_id) ==
    IF task_id \in DOMAIN store /\ store[task_id].user_id = user_id
    THEN Some(store[task_id])
    ELSE None

TodoService_delete_task(store, task_id, user_id) ==
    IF task_id \in DOMAIN store /\ store[task_id].user_id = user_id
    THEN [store |-> Remove(store, task_id), ret |-> TRUE]
    ELSE [store |-> store, ret |-> FALSE]

TodoService_set_task_complete(store, task_id, user_id, is_completed) ==
    IF task_id \in DOMAIN store /\ store[task_id].user_id = user_id
    THEN LET db_task == [store[task_id] EXCEPT !.completed = is_completed]
         IN  [store |-> Put(store, db_task), ret |-> Some(db_task)]
    ELSE [store |-> store, ret |-> None]

\* ------------------------------------------------------------------------
\* mcp_server/server.py.  The arguments of a tool call are a record of
\* optional values; a result tells success, the error code, the tasks it
\* carries and which TodoService operation the handler called ("" for none).
\* ------------------------------------------------------------------------
Arguments(title, description, task_id, is_completed, status) ==
    [title |-> title, description |-> description, task_id |-> task_id,
     is_completed |-> is_completed, status |-> status]

NoArguments == Arguments(None, None, None, None, None)

ToolResult(success, code, ts, service) ==
    [success |-> success, code |-> code, tasks |-> ts, service |-> service]

ToolReturn(db, result) == [db |-> db, result |-> result]

AuthorizationFailed == ToolResult(FALSE, "AUTHORIZATION_FAILED", << >>, "")
ValidationError == ToolResult(FALSE, "VALIDATION_ERROR", << >>, "")

InvocationStatus(success) == IF success THEN "success" ELSE "error"

\* The handler returns result after logging the invocation.
Logged(db, session_id, tool_name, result) ==
    ToolReturn(ChatService_add_tool_invocation(db, session_id, tool_name,
                                               InvocationStatus(result.success)),
               result)

MCPServer_get_user_id_from_session(table, session_id) == table[session_id].user_id

\* Mutant: an anonymous session counts as owned.
MCPServer_validate_user_owns_session_anonymous(table, user_id, session_id) ==
    IF user_id = None
    THEN TRUE
    ELSE ChatService_validate_user_owns_session(table, user_id[1], session_id)

MCPServer_validate_user_owns_session(table, user_id, session_id) ==
    IF user_id = None
    THEN FALSE
    ELSE ChatService_validate_user_owns_session(table, user_id[1], session_id)

\* Who the handler works for: None when the session has no owner.
Authorize(db, session_id) ==
    LET user_id == MCPServer_get_user_id_from_session(db.sessions, session_id)
    IN  IF MCPServer_validate_user_owns_session(db.sessions, user_id, session_id)
        THEN Some(ColumnValue(user_id))
        ELSE None

handle_create_task(db, session_id, arguments, enforced) ==
    LET user == Authorize(db, session_id)
    IN  IF user = None THEN ToolReturn(db, AuthorizationFailed)
        ELSE IF arguments.title = None \/ arguments.title = Some("")
        THEN ToolReturn(db, ValidationError)
        ELSE LET out == TodoService_create_task(db.tasks, db.nextId, user[1],
                                                arguments.title[1],
                                                arguments.description, enforced)
                 after == [db EXCEPT !.tasks = out.store,
                                     !.nextId = IF out.ret = None THEN @ ELSE @ + 1]
             IN  Logged(after, session_id, "create_task",
                        ToolResult(out.ret # None, "", out.ret, "create_task"))

handle_list_tasks(db, session_id, arguments) ==
    LET user == Authorize(db, session_id)
        status == IF arguments.status = None THEN "all" ELSE arguments.status[1]
    IN  IF user = None THEN ToolReturn(db, AuthorizationFailed)
        ELSE IF status \notin {"all", "completed", "pending"}
        THEN ToolReturn(db, ValidationError)
        ELSE Logged(db, session_id, "list_tasks",
                    ToolResult(TRUE, "",
                               TodoService_list_tasks(db.tasks, user[1], status),
                               "list_tasks"))

\* todo_service.get_task returns None for a task that is not the user's;
\* result.get then raises and the handler answers GET_TASK_FAILED.
handle_get_task(db, session_id, arguments) ==
    LET user == Authorize(db, session_id)
    IN  IF user = None THEN ToolReturn(db, AuthorizationFailed)
        ELSE IF arguments.task_id = None THEN ToolReturn(db, ValidationError)
        ELSE LET ret == TodoService_get_task(db.tasks, arguments.task_id[1], user[1])
             IN  Logged(db, session_id, "get_task",
                        ToolResult(ret # None,
                                   IF ret = None THEN "GET_TASK_FAILED" ELSE "",
                                   ret, "get_task"))

handle_update_task(db, session_id, arguments, enforced) ==
    LET user == Authorize(db, session_id)
    IN  IF user = None THEN ToolReturn(db, AuthorizationFailed)
        ELSE IF arguments.task_id = None THEN ToolReturn(db, ValidationError)
        ELSE IF arguments.title = None /\ arguments.description = None
        THEN ToolReturn(db, ValidationError)
        ELSE LET out == TodoService_update_task(db.tasks, arguments.task_id[1],
                                                user[1], arguments.title,
                                                arguments.description, enforced)
             IN  Logged([db EXCEPT !.tasks = out.store], session_id, "update_task",
                        ToolResult(out.ret # None,
                                   IF out.ret = None THEN "UPDATE_TASK_FAILED" ELSE "",
                                   out.ret, "update_task"))

handle_delete_task(db, session_id, arguments) ==
    LET user == Authorize(db, session_id)
    IN  IF user = None THEN ToolReturn(db, AuthorizationFailed)
        ELSE IF arguments.task_id = None THEN ToolReturn(db, ValidationError)
        ELSE LET out == TodoService_delete_task(db.tasks, arguments.task_id[1], user[1])
             IN  Logged([db EXCEPT !.tasks = out.store], session_id, "delete_task",
                        ToolResult(out.ret, "", << >>, "delete_task"))

handle_set_task_complete(db, session_id, arguments) ==
    LET user == Authorize(db, session_id)
    IN  IF user = None THEN ToolReturn(db, AuthorizationFailed)
        ELSE IF arguments.task_id = None THEN ToolReturn(db, ValidationError)
        ELSE IF arguments.is_completed = None THEN ToolReturn(db, ValidationError)
        ELSE LET out == TodoService_set_task_complete(db.tasks, arguments.task_id[1],
                                                      user[1], arguments.is_completed[1])
             IN  Logged([db EXCEPT !.tasks = out.store], session_id,
                        "set_task_complete",
                        ToolResult(out.ret # None,
                                   IF out.ret = None THEN "SET_TASK_COMPLETE_FAILED"
                                   ELSE "",
                                   out.ret, "set_task_complete"))

Tools == {"create_task", "list_tasks", "get_task", "update_task", "delete_task",
          "set_task_complete"}

call_tool(db, session_id, tool_name, arguments, enforced) ==
    CASE tool_name = "create_task" ->
             handle_create_task(db, session_id, arguments, enforced)
      [] tool_name = "list_tasks" -> handle_list_tasks(db, session_id, arguments)
      [] tool_name = "get_task" -> handle_get_task(db, session_id, arguments)
      [] tool_name = "update_task" ->
             handle_update_task(db, session_id, arguments, enforced)
      [] tool_name = "delete_task" -> handle_delete_task(db, session_id, arguments)
      [] tool_name = "set_task_complete" ->
             handle_set_task_complete(db, session_id, arguments)
      [] OTHER -> ToolReturn(db, ToolResult(FALSE, "TOOL_NOT_FOUND", << >>, ""))

\* ------------------------------------------------------------------------
\* chat/agent.py.  A message is a sequence of lower-case words separated by
\* single blanks.  Python's  k in message  and re.search look for
\* substrings.
\* ------------------------------------------------------------------------
Words == {"create", "show", "update", "delete", "complete", "task", "1"}

Messages == UNION {[1..n -> Words] : n \in 0..MaxWords}

\* The keyword k occurs in the word w: the words of the model are the
\* keywords themselves and a number.
Occurs(k, w) == k = w

\* k in message_lower
In(k, message) == \E i \in 1..Len(message) : Occurs(k, message[i])

\* re.search(r"a.*b", message_lower) for the pattern <<a, b>>: no word of
\* the model holds two keywords, so b is found in a later word than a.
re_search(pattern, message) ==
    \E i \in 1..Len(message) :
        /\ Occurs(pattern[1], message[i])
        /\ \E j \in (i + 1)..Len(message) : Occurs(pattern[2], message[j])

any_search(patterns, message) ==
    \E n \in 1..Len(patterns) : re_search(patterns[n], message)

create_patterns ==
    << <<"create", "task">>, <<"add", "task">>, <<"make", "task">>,
       <<"new", "task">>, <<"create", "todo">>, <<"add", "todo">>,
       <<"new", "todo">> >>

list_patterns ==
    << <<"show", "task">>, <<"list", "task">>, <<"my", "task">>,
       <<"all", "task">>, <<"show", "todo">>, <<"list", "todo">>,
       <<"my", "todo">>, <<"all", "todo">>, <<"what", "task">>,
       <<"what", "todo">> >>

update_patterns ==
    << <<"update", "task">>, <<"change", "task">>, <<"edit", "task">>,
       <<"modify", "task">>, <<"update", "todo">>, <<"change", "todo">>,
       <<"edit", "todo">>, <<"modify", "todo">> >>

delete_patterns ==
    << <<"delete", "task">>, <<"remove", "task">>, <<"cancel", "task">>,
       <<"delete", "todo">>, <<"remove", "todo">>, <<"cancel", "todo">> >>

complete_patterns ==
    << <<"complete", "task">>, <<"finish", "task">>, <<"done", "task">>,
       <<"mark", "complete">>, <<"mark", "done">>, <<"complete", "todo">>,
       <<"finish", "todo">>, <<"done", "todo">> >>

GreetingWords == {"hello", "hi", "hey", "help", "thank", "thanks", "please",
                  "yes", "no", "ok", "okay"}

AuthWords == {"create", "add", "new", "task", "todo",
                 "list", "show", "my", "all", "tasks", "todos",
                 "update", "edit", "change", "modify",
                 "delete", "remove", "cancel",
                 "complete", "finish", "done"}

requires_auth(message) == \E k \in AuthWords : In(k, message)

RECURSIVE Join(_)
Join(ws) ==
    IF Len(ws) = 0 THEN ""
    ELSE IF Len(ws) = 1 THEN ws[1]
    ELSE ws[1] \o " " \o Join(Tail(ws))

\* re.sub(r'(create|add|make|new)\s+(a\s+)?(task|todo)\s*', '', message)
RECURSIVE strip_command(_)
strip_command(ws) ==
    IF Len(ws) = 0 THEN << >>
    ELSE IF /\ Len(ws) >= 2
            /\ ws[1] \in {"create", "add", "make", "new"}
            /\ ws[2] \in {"task", "todo"}
    THEN strip_command(SubSeq(ws, 3, Len(ws)))
    ELSE <<ws[1]>> \o strip_command(Tail(ws))

\* The title _handle_create_task extracts.  No message of the model holds
\* "add", "to" or "for", which leaves r"create.*task\s+(.+?)(?:\.|$)": the
\* text after the last "task" that follows a "create" and is not the last
\* word.  Without a match the command words are cut out of the message.
extract_title(message) ==
    LET ends == {j \in 1..(Len(message) - 1) :
                    /\ message[j] = "task"
                    /\ \E i \in 1..(j - 1) : Occurs("create", message[i])}
    IN  IF ends # {}
        THEN Join(SubSeq(message, (CHOOSE j \in ends : \A k \in ends : k <= j) + 1,
                         Len(message)))
        ELSE Join(strip_command(message))

\* What a handler leaves: the database, the handlers and the tools that
\* were called, in order, and the reply (None: no reply).
AgentReturn(db, handlers, tools, reply) ==
    [db |-> db, handlers |-> handlers, tools |-> tools, reply |-> reply]

\* The handler adds its reply to the session and returns it.
Say(db, session_id, handler, tools, content) ==
    AgentReturn(ChatService_add_message(db, session_id, "assistant", content),
                <<handler>>, tools, Some(content))

_handle_create_task(db, session_id, user_message, user_id, enforced) ==
    LET h == "_handle_create_task"
        title == extract_title(user_message)
    IN  IF user_id = None THEN Say(db, session_id, h, << >>, "auth_required")
        ELSE IF title = "" \/ Len(title) < 2
        THEN Say(db, session_id, h, << >>, "clarification")
        ELSE LET out == call_tool(db, session_id, "create_task",
                                  [NoArguments EXCEPT !.title = Some(title)],
                                  enforced)
             IN  Say(out.db, session_id, h, <<"create_task">>,
                     IF out.result.success THEN "created" ELSE "create_failed")

_handle_list_tasks(db, session_id, user_message, user_id) ==
    LET h == "_handle_list_tasks"
        status == IF In("completed", user_message) THEN "completed"
                  ELSE IF In("pending", user_message) \/ In("incomplete", user_message)
                  THEN "pending"
                  ELSE "all"
    IN  IF user_id = None THEN Say(db, session_id, h, << >>, "auth_required")
        ELSE LET out == call_tool(db, session_id, "list_tasks",
                                  [NoArguments EXCEPT !.status = Some(status)],
                                  FALSE)
             IN  Say(out.db, session_id, h, <<"list_tasks">>,
                     IF out.result.success THEN "tasks" ELSE "list_failed")

_handle_update_task(db, session_id, user_message, user_id) ==
    IF user_id = None
    THEN Say(db, session_id, "_handle_update_task", << >>, "auth_required")
    ELSE Say(db, session_id, "_handle_update_task", << >>, "clarification")

_handle_delete_task(db, session_id, user_message, user_id) ==
    IF user_id = None
    THEN Say(db, session_id, "_handle_delete_task", << >>, "auth_required")
    ELSE Say(db, session_id, "_handle_delete_task", << >>, "clarification")

\* The number of r"task\s+#?(\d+)": the number that follows the first
\* "task" that has one.
Number(w) == IF w = "1" THEN Some(1) ELSE None

task_number(message) ==
    LET at == {i \in 1..(Len(message) - 1) :
                  message[i] = "task" /\ Number(message[i + 1]) # None}
    IN  IF at = {} THEN None ELSE Number(message[Min(at) + 1])

\* No message of the model holds "mark ... as", so the search of a task by
\* its title (lines 586 to 660) ends in the request for clarification.
_handle_set_task_complete(db, session_id, user_message, user_id) ==
    LET h == "_handle_set_task_complete"
        is_completed == ~In("not", user_message) /\ ~In("incomplete", user_message)
        number_match == task_number(user_message)
    IN  IF user_id = None THEN Say(db, session_id, h, << >>, "auth_required")
        ELSE IF number_match = None THEN Say(db, session_id, h, << >>, "clarification")
        ELSE LET listed == call_tool(db, session_id, "list_tasks",
                                     [NoArguments EXCEPT !.status = Some("all")],
                                     FALSE)
                 ts == listed.result.tasks
             IN  IF ~listed.result.success
                 THEN Say(listed.db, session_id, h, <<"list_tasks">>, "list_failed")
                 ELSE IF number_match[1] > Len(ts)
                 THEN Say(listed.db, session_id, h, <<"list_tasks">>, "no_such_task")
                 ELSE LET out == call_tool(listed.db, session_id, "set_task_complete",
                                           [NoArguments EXCEPT
                                               !.task_id = Some(ts[number_match[1]].id),
                                               !.is_completed = Some(is_completed)],
                                           FALSE)
                      IN  Say(out.db, session_id, h,
                              <<"list_tasks", "set_task_complete">>,
                              IF out.result.success THEN "completed"
                              ELSE "complete_failed")

Nothing(db) == AgentReturn(db, << >>, << >>, None)

\* Mutant: the list patterns are tried before the create patterns.
_determine_and_execute_tool_list_first(db, session_id, user_message, user_id, enforced) ==
    IF any_search(list_patterns, user_message)
    THEN _handle_list_tasks(db, session_id, user_message, user_id)
    ELSE IF any_search(create_patterns, user_message)
    THEN _handle_create_task(db, session_id, user_message, user_id, enforced)
    ELSE IF any_search(update_patterns, user_message)
    THEN _handle_update_task(db, session_id, user_message, user_id)
    ELSE IF any_search(delete_patterns, user_message)
    THEN _handle_delete_task(db, session_id, user_message, user_id)
    ELSE IF any_search(complete_patterns, user_message)
    THEN _handle_set_task_complete(db, session_id, user_message, user_id)
    ELSE Nothing(db)

_determine_and_execute_tool(db, session_id, user_message, user_id, enforced) ==
    IF any_search(create_patterns, user_message)
    THEN _handle_create_task(db, session_id, user_message, user_id, enforced)
    ELSE IF /\ ~any_search(list_patterns, user_message)
            /\ ~any_search(update_patterns, user_message)
            /\ ~any_search(delete_patterns, user_message)
            /\ ~any_search(complete_patterns, user_message)
            /\ Len(user_message) >= 1
            /\ ~\E word \in GreetingWords : In(word, user_message)
    THEN _handle_create_task(db, session_id, user_message, user_id, enforced)
    ELSE IF any_search(list_patterns, user_message)
    THEN _handle_list_tasks(db, session_id, user_message, user_id)
    ELSE IF any_search(update_patterns, user_message)
    THEN _handle_update_task(db, session_id, user_message, user_id)
    ELSE IF any_search(delete_patterns, user_message)
    THEN _handle_delete_task(db, session_id, user_message, user_id)
    ELSE IF any_search(complete_patterns, user_message)
    THEN _handle_set_task_complete(db, session_id, user_message, user_id)
    ELSE Nothing(db)

\* What the language model answers: a response or an error.
LLMOutcomes == {"llm_response", "llm_error"}

\* Mutant: the check of requires_auth is left out and the handlers are
\* given the owner of the session for the user.
process_message_no_auth_check(db, session_id, user_message, user_id, llm, enforced) ==
    LET out == _determine_and_execute_tool(db, session_id, user_message,
                                          db.sessions[session_id].user_id, enforced)
    IN  IF out.reply # None THEN out
        ELSE AgentReturn(ChatService_add_message(db, session_id, "assistant", llm),
                         << >>, << >>, Some(llm))

process_message(db, session_id, user_message, user_id, llm, enforced) ==
    IF requires_auth(user_message) /\ user_id = None
    THEN AgentReturn(ChatService_add_message(db, session_id, "assistant",
                                             "auth_required"),
                     << >>, << >>, Some("auth_required"))
    ELSE LET out == _determine_and_execute_tool(db, session_id, user_message,
                                               user_id, enforced)
         IN  IF out.reply # None THEN out
             ELSE AgentReturn(ChatService_add_message(db, session_id, "assistant", llm),
                              << >>, << >>, Some(llm))

\* ------------------------------------------------------------------------
\* The state of the chatbot and the steps on it.  chat is a history
\* variable: the latest call or request, who made it and how it ended.
\* ------------------------------------------------------------------------
DB == Database(sessions, chatMessages, tasks, nextId, invocations)

Commit(db) ==
    /\ sessions' = db.sessions
    /\ chatMessages' = db.messages
    /\ tasks' = db.tasks
    /\ nextId' = db.nextId
    /\ invocations' = db.invocations

\* chat_service.create_session(user_id)
CreateSession(u) ==
    /\ NewSessionId(sessions) <= MaxSessions
    /\ Commit(ChatService_create_session(DB, u))
    /\ UNCHANGED <<chat, called, last, resp, raised, created, rateVars, userVars,
                   authVars, todoVars>>

\* chat_service.create_anonymous_session()
CreateAnonymousSession ==
    /\ NewSessionId(sessions) <= MaxSessions
    /\ \E not_null \in BOOLEAN :
           Commit(ChatService_create_anonymous_session(DB, not_null).db)
    /\ UNCHANGED <<chat, called, last, resp, raised, created, rateVars, userVars,
                   authVars, todoVars>>

\* ai_agent.process_message(session_id, user_message, user_id) on a session
\* of the table.  The titles the agent extracts are a few words long and
\* fit the column.  SpecAgent follows one message through the agent.
ProcessMessage(s, message, user_id) ==
    /\ chat.op = "none"
    /\ s \in DOMAIN sessions
    /\ \E llm \in LLMOutcomes :
       \E out \in {process_message(DB, s, message, user_id, llm, FALSE)} :
           /\ out.db.nextId <= MaxTasks + 1
           /\ Commit(out.db)
           /\ chat' = ChatOutcome("process_message", user_id, Some(s), message,
                                  0, "", out.handlers, out.tools, << >>)
    /\ UNCHANGED <<called, last, resp, raised, created, rateVars, userVars,
                   authVars, todoVars>>

\* SpecAgent: one session is created and the TodoService stores tasks until
\* the agent processes a message.
NextAgent ==
    \/ \E u \in Users : sessions = << >> /\ CreateSession(u)
    \/ sessions = << >> /\ CreateAnonymousSession
    \/ chat.op = "none" /\ TodoCreateTask("u1", "a", None)
    \/ /\ chat.op = "none"
       /\ \E s \in DOMAIN sessions, m \in Messages,
             u \in {None} \cup {Some(x) : x \in Users} :
              ProcessMessage(s, m, u)

SpecAgent == Init /\ [][NextAgent]_vars

\* The tool calls SpecTools follows.
MaxCalls == 2

\* The arguments of the tool calls: none, and what each tool asks for.
ToolArguments ==
    {NoArguments,
     [NoArguments EXCEPT !.title = Some("ab")],
     [NoArguments EXCEPT !.status = Some("all")],
     [NoArguments EXCEPT !.task_id = Some(1)],
     [NoArguments EXCEPT !.task_id = Some(1), !.title = Some("b")],
     [NoArguments EXCEPT !.task_id = Some(1), !.is_completed = Some(TRUE)]}

\* mcp_server.call_tool(session_id, tool_name, arguments) on a session of
\* the table.  called is a history variable: the latest tool call and its
\* result.
CallTool(s, tool_name, arguments) ==
    /\ called.calls < MaxCalls
    /\ s \in DOMAIN sessions
    /\ \E out \in {call_tool(DB, s, tool_name, arguments, FALSE)} :
           /\ out.db.nextId <= MaxTasks + 1
           /\ Commit(out.db)
           /\ called' = [calls |-> called.calls + 1, tool_name |-> tool_name,
                         session_id |-> Some(s), arguments |-> arguments,
                         success |-> out.result.success, code |-> out.result.code,
                         tasks |-> out.result.tasks, service |-> out.result.service]
    /\ UNCHANGED <<chat, last, resp, raised, created, rateVars, userVars,
                   authVars, todoVars>>

\* SpecTools: sessions with and without an owner are created and the
\* TodoService stores tasks until the first tool is called; then the tools
\* are called on the sessions.
NextTools ==
    \/ called.calls = 0 /\ CreateSession("u1")
    \/ called.calls = 0 /\ CreateAnonymousSession
    \/ called.calls = 0 /\ TodoCreateTask("u1", "a", None)
    \/ /\ called.calls < MaxCalls
       /\ \E s \in DOMAIN sessions, tool_name \in Tools,
             arguments \in ToolArguments :
              CallTool(s, tool_name, arguments)

SpecTools == Init /\ [][NextTools]_vars

\* ------------------------------------------------------------------------
\* chat/api.py: the endpoints under /api/v1/chat, requested by a user whose
\* token get_current_user accepts.  403 is answered by main.py's handler
\* (code FORBIDDEN); 400 and 429 have no handler of their own and carry the
\* detail of the HTTPException.
\* ------------------------------------------------------------------------
\* Mutant: the limit is computed and the headers are set, nothing is raised.
check_rate_limit_no_raise(reqs, user_id, t) ==
    [limit |-> is_allowed(reqs, user_id, t), exc |-> None]

\* core/rate_limiter.py check_rate_limit: the limiter after the call and
\* the exception raised, if any.
check_rate_limit(reqs, user_id, t) ==
    LET r == is_allowed(reqs, user_id, t)
    IN  [limit |-> r,
         exc |-> IF r.allowed THEN None
                 ELSE Some(HTTPException(429,
                          DictDetail(Some("TOO_MANY_REQUESTS"),
                                     Some("Rate limit exceeded"), None,
                                     Some("Try again later"))))]

\* What an endpoint leaves: the database, the limiter's record (None: the
\* limiter was not asked), the response and what the agent did.
ChatResponse(db, limit, status, code, handlers, tools, returned) ==
    [db |-> db, limit |-> limit, status |-> status, code |-> code,
     handlers |-> handlers, tools |-> tools, returned |-> returned]

ChatError(db, limit, status, code) ==
    ChatResponse(db, limit, status, code, << >>, << >>, << >>)

\* POST /sessions.  The session ids of the model are well-formed UUIDs.
\* process_message catches what it raises, so the handler's own except
\* branch (lines 84 to 106) is not taken.
create_or_continue_session(db, reqs, t, user_id, session_id, user_message, llm) ==
    IF user_message = << >>
    THEN ChatError(db, None, 400, "")
    ELSE LET rate == check_rate_limit(reqs, user_id, t)
         IN  IF rate.exc # None
             THEN ChatError(db, Some(rate.limit), rate.exc[1].status_code,
                            rate.exc[1].detail.error_code[1])
             ELSE IF /\ session_id # None
                     /\ ChatService_get_session_for_user(db.sessions, session_id[1],
                                                         user_id) = None
             THEN ChatError(db, Some(rate.limit), 403, "FORBIDDEN")
             ELSE LET db_session_id == IF session_id = None
                                       THEN NewSessionId(db.sessions)
                                       ELSE session_id[1]
                      opened == IF session_id = None
                                THEN ChatService_create_session(db, user_id)
                                ELSE db
                      asked == ChatService_add_message(opened, db_session_id, "user",
                                                       Join(user_message))
                      out == process_message(asked, db_session_id, user_message,
                                             Some(user_id), llm, FALSE)
                  IN  ChatResponse(ChatService_add_message(out.db, db_session_id,
                                                           "assistant", out.reply[1]),
                                   Some(rate.limit), 200, "", out.handlers,
                                   out.tools, << >>)

\* GET /sessions/{session_id}/messages
get_session_messages(db, user_id, session_id) ==
    IF ChatService_get_session_for_user(db.sessions, session_id, user_id) = None
    THEN ChatError(db, None, 403, "FORBIDDEN")
    ELSE ChatResponse(db, None, 200, "", << >>, << >>,
                      ChatService_get_messages(db, session_id))

\* GET /sessions/{session_id}
get_session_details(db, user_id, session_id) ==
    IF ChatService_get_session_for_user(db.sessions, session_id, user_id) = None
    THEN ChatError(db, None, 403, "FORBIDDEN")
    ELSE ChatResponse(db, None, 200, "", << >>, << >>, << >>)

\* DELETE /sessions/{session_id}
deactivate_session(db, user_id, session_id) ==
    IF ChatService_get_session_for_user(db.sessions, session_id, user_id) = None
    THEN ChatError(db, None, 403, "FORBIDDEN")
    ELSE LET out == ChatService_deactivate_session(db, session_id)
         IN  IF ~out.ret
             THEN ChatError(out.db, None, 404, "NOT_FOUND")
             ELSE ChatResponse(out.db, None, 200, "", << >>, << >>, << >>)

\* The limiter was asked by u and answered r.
Limited(u, r) ==
    /\ requests' = r.requests
    /\ rl' = [user |-> u, at |-> now, allowed |-> r.allowed,
              remaining |-> r.remaining, reset_time |-> r.reset_time,
              status |-> IF r.allowed THEN 200 ELSE 429,
              after_denial |-> denied[u]]
    /\ allowedLog' = IF r.allowed
                     THEN [allowedLog EXCEPT ![u] = Append(@, now)]
                     ELSE allowedLog
    /\ denied' = [denied EXCEPT ![u] = ~r.allowed]

\* An endpoint was requested by u and left out.
Answer(op, u, session_id, message, out) ==
    /\ Cardinality(DOMAIN out.db.sessions) <= MaxSessions
    /\ out.db.nextId <= MaxTasks + 1
    /\ Commit(out.db)
    /\ IF out.limit = None
       THEN UNCHANGED <<requests, rl, allowedLog, denied>>
       ELSE Limited(u, out.limit[1])
    /\ chat' = ChatOutcome(op, Some(u), session_id, message, out.status,
                           out.code, out.handlers, out.tools, out.returned)
    /\ UNCHANGED <<called, now, ticks, last, resp, raised, created, userVars,
                   authVars, todoVars>>

\* The messages of the requests: none, and one that lists the tasks.
ChatInputs == {<< >>, <<"show", "task">>}

PostSession(u, session_id, message) ==
    \E out \in {create_or_continue_session(DB, requests, now, u, session_id,
                                           message, "llm_response")} :
        Answer("create_or_continue_session", u, session_id, message, out)

GetSessionMessages(u, s) ==
    \E out \in {get_session_messages(DB, u, s)} :
        Answer("get_session_messages", u, Some(s), << >>, out)

GetSessionDetails(u, s) ==
    \E out \in {get_session_details(DB, u, s)} :
        Answer("get_session_details", u, Some(s), << >>, out)

DeactivateSession(u, s) ==
    \E out \in {deactivate_session(DB, u, s)} :
        Answer("deactivate_session", u, Some(s), << >>, out)

\* SpecChat: the endpoints requested within one window of the rate
\* limiter.  One user opens the sessions; both users continue, read and
\* deactivate them.
NextChat ==
    \/ \E m \in ChatInputs : PostSession("u1", None, m)
    \/ \E u \in Users, s \in SessionIds, m \in ChatInputs :
           PostSession(u, Some(s), m)
    \/ \E u \in Users, s \in SessionIds : GetSessionMessages(u, s)
    \/ \E u \in Users, s \in SessionIds : GetSessionDetails(u, s)
    \/ \E u \in Users, s \in SessionIds : DeactivateSession(u, s)

SpecChat == Init /\ [][NextChat]_vars

TypeOK ==
    /\ DOMAIN tasks \subseteq TaskIds
    /\ nextId \in 1..(MaxTasks + 1)
    /\ resp.status \in {0, 200, 201, 204, 400, 401, 403, 404, 422, 500}
    /\ chat.status \in {0, 200, 400, 403, 404, 429}
    /\ DOMAIN sessions \subseteq SessionIds

\* ------------------------------------------------------------------------
\* Properties of the task endpoints
\* ------------------------------------------------------------------------
WithBodyParsed == {"none", "ok", "schema_error"}
WithBodyValid == {"none", "ok"}

\* C1 as stated: every request authenticated as a user other than the
\* path's user is answered 403 FORBIDDEN and changes no task.
C1_AlwaysForbidden ==
    [][last'.auth = "other" =>
           /\ resp'.status = 403
           /\ resp'.error_code = "FORBIDDEN"
           /\ tasks' = tasks]_vars

\* C1: a request authenticated as a user other than the path's user is
\* answered 403 FORBIDDEN when its body passes request validation and 422
\* VALIDATION_ERROR when it does not; either way no task of any user is
\* created, changed or deleted.
C1_ForbiddenOrInvalid ==
    [][last'.auth = "other" =>
           /\ tasks' = tasks
           /\ last'.body \in WithBodyValid =>
                  resp'.status = 403 /\ resp'.error_code = "FORBIDDEN"
           /\ last'.body \notin WithBodyValid =>
                  resp'.status = 422 /\ resp'.error_code = "VALIDATION_ERROR"]_vars

\* A user asked to delete, through the owner's path, a task that exists.
C1_Witness ==
    /\ last.op = "delete"
    /\ last.auth = "other"
    /\ last.target = "own"
    /\ resp.status = 403

\* C3 as stated: every request that does not authenticate is answered 401
\* and leaves the task table unchanged.
C3_AlwaysUnauthorized ==
    [][last'.auth = "none" => resp'.status = 401 /\ tasks' = tasks]_vars

\* C3: a request without a Bearer header, or whose token fails verification
\* or carries no 'sub', leaves the task table unchanged and is answered
\* 401, unless it carries a body that is not parseable JSON, which is
\* answered 422 before the token is looked at.
C3_UnauthorizedOrUnparseable ==
    [][last'.auth = "none" =>
           /\ tasks' = tasks
           /\ last'.body \in WithBodyParsed => resp'.status = 401
           /\ last'.body \notin WithBodyParsed =>
                  resp'.status = 422 /\ resp'.error_code = "VALIDATION_ERROR"]_vars

\* A create with a valid body and no valid token, while tasks exist.
C3_Witness ==
    /\ last.op = "create"
    /\ last.auth = "none"
    /\ last.body = "ok"
    /\ resp.status = 401
    /\ tasks # << >>

\* C7: a create by the authenticated owner whose title has length 0 or
\* more than 100, or whose description has more than 1000 characters, is
\* answered 422 VALIDATION_ERROR and stores no task.
C7_InvalidCreateIs422 ==
    [][(/\ last'.op = "create"
        /\ last'.auth = "owner"
        /\ last'.body = "ok"
        /\ ~last'.lengths_ok) =>
           /\ resp'.status = 422
           /\ resp'.error_code = "VALIDATION_ERROR"
           /\ tasks' = tasks]_vars

\* C2: a get, update, delete or complete by a user with the id of a task
\* another user owns reports the task as not found and leaves the table,
\* hence that task's fields and existence, unchanged.
C2_ForeignTaskNotFound ==
    [][/\ (last'.auth = "owner" /\ last'.target = "foreign") =>
           /\ resp'.status = 404
           /\ resp'.error_code = "TASK_NOT_FOUND"
           /\ resp'.task = None
           /\ tasks' = tasks
        /\ \A t \in DOMAIN tasks', a \in Users :
               LET unchanged == [store |-> tasks', ret |-> None, exc |-> None] IN
               tasks'[t].user_id # a =>
                   /\ TaskService_get_task_by_id(tasks', t, a) = None
                   /\ \A title \in {None, Some(""), Some("a")} :
                          TaskService_update_task(tasks', t, a, title, Some("d"),
                                                  Some(TRUE)) = unchanged
                   /\ TaskService_delete_task(tasks', t, a) = unchanged
                   /\ \A c \in BOOLEAN :
                          TaskService_complete_task(tasks', t, a, c) = unchanged]_vars

\* A user asked to update a task of another user.
C2_Witness ==
    /\ last.op = "update"
    /\ last.auth = "owner"
    /\ last.target = "foreign"
    /\ last.body = "ok"
    /\ resp.status = 404

\* C9: a task created with title T and description D for user u is what
\* get_task_by_id(u, id) returns and is among what get_all_tasks(u)
\* returns, with completed = False, for as long as that task itself has not
\* been updated, completed or deleted.
C9_RoundTrip ==
    \A i \in DOMAIN created :
        LET c == created[i]
            expected == Row(i, c.user_id, c.title, c.description, FALSE)
        IN  /\ TaskService_get_task_by_id(tasks, i, c.user_id) = Some(expected)
            /\ expected \in TaskService_get_all_tasks(tasks, c.user_id)

\* A tracked task with a description, just after another task of the same
\* user was updated.
C9_Witness ==
    \E i \in DOMAIN created :
        /\ created[i].description # None
        /\ last.op = "update"
        /\ last.target = "own"
        /\ resp.status = 200
        /\ resp.task # None
        /\ resp.task[1].id # i
        /\ resp.task[1].user_id = created[i].user_id

\* ------------------------------------------------------------------------
\* Properties of the chat rate limiter
\* ------------------------------------------------------------------------
\* The allowed calls of u with a timestamp in (t - 3600, t].
AllowedIn(u, t) ==
    {k \in DOMAIN allowedLog[u] :
        allowedLog[u][k] > t - WINDOW_SECONDS /\ allowedLog[u][k] <= t}

\* C4: for every user and every instant t, at most
\* RATE_LIMIT_REQUESTS_PER_HOUR of the user's allowed calls have a
\* timestamp in (t - 3600 s, t].  The number of timestamps in (t - 3600, t]
\* only grows when t reaches a timestamp, so the instants to look at are
\* the timestamps themselves and the present.
C4_AtMostLimitPerWindow ==
    \A u \in Users :
        \A t \in Range(allowedLog[u]) \cup {now} :
            Cardinality(AllowedIn(u, t)) <= RATE_LIMIT_REQUESTS_PER_HOUR

\* A user was allowed more than the limit in total and is now denied.
C4_Witness ==
    \E u \in Users :
        /\ Len(allowedLog[u]) > RATE_LIMIT_REQUESTS_PER_HOUR
        /\ rl.user = u
        /\ rl.status = 429

\* The stored timestamps of u that still count at the present.
Counting(u) == {k \in DOMAIN requests[u] : requests[u][k] > now - WINDOW_SECONDS}

\* C5 as stated: a fixed window.  The requests counted for a user stop
\* counting at the same instant, and the first call allowed after a denial
\* has the whole limit before it.
C5_FixedWindow ==
    /\ \A u \in Users : Counting(u) = {} \/ Counting(u) = DOMAIN requests[u]
    /\ (rl.allowed /\ rl.after_denial) =>
           rl.remaining = RATE_LIMIT_REQUESTS_PER_HOUR - 1

\* C5: the limiter is a sliding window over a log of timestamps.  Each
\* allowed request counts for 3600 s from its own timestamp: a call is
\* allowed exactly when fewer than RATE_LIMIT_REQUESTS_PER_HOUR of the
\* user's earlier allowed calls are younger than 3600 s, the remaining count
\* it reports is the limit less those calls and itself, and the stored list
\* is those calls, so a denied user gets requests back one by one as the
\* counted ones turn 3600 s old.
C5_SlidingWindow ==
    /\ rl.user # "" =>
           LET u == rl.user
               younger == {k \in DOMAIN allowedLog[u] :
                              allowedLog[u][k] > rl.at - WINDOW_SECONDS}
               before == Cardinality(younger) - (IF rl.allowed THEN 1 ELSE 0)
           IN  /\ rl.allowed <=> before < RATE_LIMIT_REQUESTS_PER_HOUR
               /\ rl.remaining = IF rl.allowed
                                 THEN RATE_LIMIT_REQUESTS_PER_HOUR - before - 1
                                 ELSE 0
               /\ requests[u] = SelectSeq(allowedLog[u],
                                    LAMBDA ts : ts > rl.at - WINDOW_SECONDS)
    /\ \A u \in Users : Len(requests[u]) <= RATE_LIMIT_REQUESTS_PER_HOUR

\* A denied user is allowed again with less than the whole limit before it.
C5_Witness ==
    /\ rl.allowed
    /\ rl.after_denial
    /\ rl.remaining < RATE_LIMIT_REQUESTS_PER_HOUR - 1
    /\ Counting(rl.user) # DOMAIN requests[rl.user]
       \/ Len(requests[rl.user]) = RATE_LIMIT_REQUESTS_PER_HOUR

\* C6: a call for user u changes the stored timestamps of no other user v,
\* and leaves the answer (allowed, remaining) a call for v would get at
\* that instant as it was.
C6_OtherUsersUntouched ==
    [][\A u \in Users : CheckRateLimit(u) =>
           \A v \in Users \ {u} :
               /\ requests'[v] = requests[v]
               /\ is_allowed(requests', v, now').allowed
                      = is_allowed(requests, v, now).allowed
               /\ is_allowed(requests', v, now').remaining
                      = is_allowed(requests, v, now).remaining]_vars

\* One user is denied while another still has calls left.
C6_Witness ==
    \E u \in Users, v \in Users :
        /\ u # v
        /\ rl.user = u
        /\ rl.status = 429
        /\ requests[v] # << >>
        /\ is_allowed(requests, v, now).allowed

C10_StoredLengthsWithinLimits ==
    \A i \in DOMAIN tasks :
        /\ Len(tasks[i].title) >= TITLE_MIN_LENGTH
        /\ Len(tasks[i].title) <= TITLE_MAX_LENGTH
        /\ tasks[i].description # None =>
               Len(tasks[i].description[1]) <= DESCRIPTION_MAX_LENGTH

\* ------------------------------------------------------------------------
\* Properties of the accounts
\* ------------------------------------------------------------------------
\* C11: no two stored users have the same email, and a step of create_user
\* or update_user that would give a user an email another user holds
\* fails and leaves the user table unchanged, whatever the interleaving of
\* the calls.
C11_EmailsUnique ==
    [][/\ \A i \in DOMAIN users', j \in DOMAIN users' :
              i # j => users'[i].email # users'[j].email
       /\ ures'.taken => ~ures'.ok /\ users' = users]_vars

\* Two interleaved calls passed the check for the same email; the commit
\* of the second one failed.
C11_Witness ==
    /\ ures.op \in {"create_commit", "update_commit"}
    /\ ures.taken
    /\ ures.exc = "IntegrityError"
    /\ \E i \in DOMAIN users : Some(users[i].email) = ures.email

\* The intents in the order of the router, their patterns and handlers.
IntentPatterns ==
    <<create_patterns, list_patterns, update_patterns, delete_patterns,
      complete_patterns>>
IntentHandlers ==
    <<"_handle_create_task", "_handle_list_tasks", "_handle_update_task",
      "_handle_delete_task", "_handle_set_task_complete">>
MatchingIntents(message) ==
    {n \in 1..Len(IntentPatterns) : any_search(IntentPatterns[n], message)}

\* C12: a message that matches a pattern of at least one intent and reaches
\* the router is dispatched to exactly one handler, the handler of the
\* first intent in the order create, list, update, delete, complete that
\* has a matching pattern.
C12_FirstMatchWins ==
    /\ chat.op = "process_message"
    /\ chat.user_id # None
    /\ MatchingIntents(chat.message) # {}
    => chat.handlers = <<IntentHandlers[Min(MatchingIntents(chat.message))]>>

\* A message with a pattern of the list intent and one of the create
\* intent went to the create handler alone; one with patterns of the
\* delete and the complete intent is known to the model as well.
C12_Witness ==
    /\ chat.op = "process_message"
    /\ chat.user_id # None
    /\ {1, 2} \subseteq MatchingIntents(chat.message)
    /\ chat.handlers = <<"_handle_create_task">>
    /\ chat.tools = <<"create_task">>

\* ------------------------------------------------------------------------
\* Properties of the chat endpoints
\* ------------------------------------------------------------------------
\* The step is a request on a session that exists and belongs to someone
\* else than the authenticated user.
OnForeignSession ==
    /\ chat'.session_id # None
    /\ chat'.session_id[1] \in DOMAIN sessions
    /\ sessions[chat'.session_id[1]].user_id # chat'.user_id

\* The request reads none of the session's messages and changes neither
\* the messages nor the sessions.
NoChatEffect ==
    /\ chat'.returned = << >>
    /\ chatMessages' = chatMessages
    /\ sessions' = sessions

\* C13 as stated: every request on an existing session of another user is
\* answered 403, returns no message, adds none and leaves is_active alone.
C13_AlwaysForbidden ==
    [][OnForeignSession => chat'.status = 403 /\ NoChatEffect]_vars

\* C13: a request on an existing session of another user returns no
\* message, adds none and leaves is_active alone; it is answered 403,
\* except that a POST without a message is answered 400 and a POST of a
\* user over the rate limit 429, both being checked before the ownership.
C13_ForbiddenAfterEarlierChecks ==
    [][OnForeignSession =>
           /\ NoChatEffect
           /\ chat'.status =
                  IF chat'.op # "create_or_continue_session" THEN 403
                  ELSE IF chat'.message = << >> THEN 400
                  ELSE IF ~is_allowed(requests, chat'.user_id[1], now).allowed THEN 429
                  ELSE 403]_vars

\* A user posted a message to another user's session, which holds messages
\* and is still active, and was answered 403.
C13_Witness ==
    /\ chat.op = "create_or_continue_session"
    /\ chat.status = 403
    /\ chat.message # << >>
    /\ chat.session_id[1] \in DOMAIN sessions
    /\ sessions[chat.session_id[1]].user_id # chat.user_id
    /\ sessions[chat.session_id[1]].is_active
    /\ ChatService_get_messages(DB, chat.session_id[1]) # << >>

\* The step is a POST /sessions that the rate limiter denies.
RateDenied ==
    /\ chat'.op = "create_or_continue_session"
    /\ chat'.message # << >>
    /\ ~is_allowed(requests, chat'.user_id[1], now).allowed

\* C14: a POST /api/v1/chat/sessions that the rate limiter denies is
\* answered 429 TOO_MANY_REQUESTS; it creates no session, stores no
\* message, does not run the agent and invokes no tool.
C14_DeniedHasNoEffect ==
    [][RateDenied =>
           /\ chat'.status = 429
           /\ chat'.code = "TOO_MANY_REQUESTS"
           /\ sessions' = sessions
           /\ chatMessages' = chatMessages
           /\ invocations' = invocations
           /\ tasks' = tasks
           /\ chat'.handlers = << >>
           /\ chat'.tools = << >>]_vars

\* A user who has used up the limit asked for a new session with a message
\* that lists the tasks, and was denied.
C14_Witness ==
    /\ chat.op = "create_or_continue_session"
    /\ chat.status = 429
    /\ chat.session_id = None
    /\ chat.message = <<"show", "task">>
    /\ Len(requests[chat.user_id[1]]) = RATE_LIMIT_REQUESTS_PER_HOUR
    /\ Cardinality(DOMAIN sessions) < MaxSessions

\* ------------------------------------------------------------------------
\* Properties of the agent without a user
\* ------------------------------------------------------------------------
\* The step is process_message called with user_id = None.
ProcessedWithoutUser ==
    /\ chat.op = "none"
    /\ chat'.op = "process_message"
    /\ chat'.user_id = None

\* The messages table grew by assistant messages of the session, and by
\* nothing else.
OnlyAssistantMessagesAdded ==
    /\ Len(chatMessages') >= Len(chatMessages)
    /\ SubSeq(chatMessages', 1, Len(chatMessages)) = chatMessages
    /\ \A i \in (Len(chatMessages) + 1)..Len(chatMessages') :
           /\ chatMessages'[i].role = "assistant"
           /\ Some(chatMessages'[i].session_id) = chat'.session_id

\* C15: process_message called with user_id = None calls no MCP tool and
\* creates, changes and deletes no task, whatever the message; all it does
\* is add assistant messages to the session.
C15_NoUserNoTool ==
    [][ProcessedWithoutUser =>
           /\ chat'.tools = << >>
           /\ invocations' = invocations
           /\ tasks' = tasks
           /\ nextId' = nextId
           /\ sessions' = sessions
           /\ OnlyAssistantMessagesAdded]_vars

\* A message without a word that asks for a login reached the create
\* handler with user_id = None, on a session that has an owner who has
\* tasks; the handler answered and called no tool.
C15_Witness ==
    /\ chat.op = "process_message"
    /\ chat.user_id = None
    /\ ~requires_auth(chat.message)
    /\ Len(chat.message) >= 2
    /\ chat.handlers = <<"_handle_create_task">>
    /\ sessions[chat.session_id[1]].user_id = Some("u1")
    /\ tasks # << >>
    /\ chatMessages # << >>

\* ------------------------------------------------------------------------
\* Properties of the MCP tools
\* ------------------------------------------------------------------------
\* The step is a tool call on a session whose user_id is None.
CalledOnAnonymousSession ==
    /\ called'.calls = called.calls + 1
    /\ called'.session_id[1] \in DOMAIN sessions
    /\ sessions[called'.session_id[1]].user_id = None

\* C16: every MCP tool called on a session whose user_id is None returns
\* success = False with the code AUTHORIZATION_FAILED; it calls no
\* operation of the TodoService, returns no task and changes none.
C16_AnonymousSessionRefused ==
    [][CalledOnAnonymousSession =>
           /\ ~called'.success
           /\ called'.code = "AUTHORIZATION_FAILED"
           /\ called'.service = ""
           /\ called'.tasks = << >>
           /\ tasks' = tasks
           /\ nextId' = nextId
           /\ invocations' = invocations]_vars

\* create_task was called with a title on a session without an owner,
\* while tasks are stored, and was refused.
C16_Witness ==
    /\ called.tool_name = "create_task"
    /\ called.arguments = [NoArguments EXCEPT !.title = Some("ab")]
    /\ called.session_id # None
    /\ sessions[called.session_id[1]].user_id = None
    /\ called.code = "AUTHORIZATION_FAILED"
    /\ tasks # << >>

\* ------------------------------------------------------------------------
\* Properties of the password reset
\* ------------------------------------------------------------------------
\* The step is a reset-password request with a token that exists, is
\* neither expired nor used, and a new password of at least 8 characters.
ValidReset ==
    /\ auth'.op = "reset_password"
    /\ clock' = clock
    /\ auth'.token[1] \in DOMAIN resetTokens
    /\ ~(resetTokens[auth'.token[1]].expires_at < clock)
    /\ ~resetTokens[auth'.token[1]].used
    /\ Len(auth'.password[1].text) >= RESET_PASSWORD_MIN_LENGTH

\* The user a token was made for.
TokenUser(token) == users[resetTokens[token].user_id]

\* C17: a reset-password request with a token that exists, is not expired
\* and not used, and a new password of at least 8 characters, succeeds;
\* afterwards authenticate_user returns the user for the new password and
\* None for the password the user had before.
C17_ResetSetsPassword ==
    [][ValidReset =>
           LET user == TokenUser(auth'.token[1])
               new == auth'.password[1]
           IN  /\ auth'.response.status = 200
               /\ UserService_authenticate_user(users', user.email, new) # None
               /\ \A old \in {StrongPassword, OtherStrongPassword} \ {new} :
                      UserService_authenticate_user(users, user.email, old) # None
                      => UserService_authenticate_user(users', user.email, old)
                             = None]_vars

\* The step is a reset-password request with a token marked used.
UsedReset ==
    /\ auth'.op = "reset_password"
    /\ clock' = clock
    /\ auth'.token[1] \in DOMAIN resetTokens
    /\ resetTokens[auth'.token[1]].used

\* C18: over any sequence of requests each token yields at most one
\* successful reset and changes a password at most once, and every
\* reset-password request with a token already marked used is answered
\* 400 and changes no password.
C18_TokenUsedOnce ==
    [][/\ \A t \in DOMAIN resetLog' :
              resetLog'[t].ok <= 1 /\ resetLog'[t].changed <= 1
       /\ UsedReset => auth'.response.status = 400 /\ users' = users]_vars

\* A reset with a token that an earlier request had marked used, and a
\* password that is long enough, was rejected; the user's password is the
\* one of the signup.
C18_Witness ==
    /\ auth.op = "reset_password"
    /\ auth.used
    /\ Len(auth.password[1].text) >= RESET_PASSWORD_MIN_LENGTH
    /\ auth.response.status = 400
    /\ auth.response.error_code = "EXPIRED_TOKEN"
    /\ resetLog[auth.token[1]].ok = 0
    /\ UserService_authenticate_user(users, TokenUser(auth.token[1]).email,
                                     StrongPassword) # None

\* The user table of the other run: the same table without the accounts
\* of the email when it has one, with an account for it when it has none.
OtherRun(table, email) ==
    IF get_user_by_email(table, email) # None
    THEN [i \in {j \in DOMAIN table : table[j].email # email} |-> table[i]]
    ELSE Put(table, UserRow(Cardinality(DOMAIN table) + 1, email,
                            get_password_hash(StrongPassword)))

\* C19: forgot-password answers with the same status and the same body
\* in two runs that differ only in whether the email has an account.
C19_SameAnswerForUnknownEmail ==
    [][auth'.op = "forgot_password" /\ clock' = clock =>
           /\ (get_user_by_email(OtherRun(users, auth'.email[1]), auth'.email[1])
                   = None)
                  # (get_user_by_email(users, auth'.email[1]) = None)
           /\ forgot_password(OtherRun(users, auth'.email[1]), resetTokens,
                              auth'.email[1], clock).response
                  = auth'.response]_vars

\* A token was made for an email that has an account, and the request
\* was answered with the message an unknown email gets.
C19_Witness ==
    /\ auth.op = "forgot_password"
    /\ get_user_by_email(users, auth.email[1]) # None
    /\ resetTokens # << >>
    /\ resetTokens[Len(resetTokens)].user_id
           = get_user_by_email(users, auth.email[1])[1].id
    /\ resetTokens[Len(resetTokens)].expires_at = clock + TOKEN_LIFETIME_HOURS
    /\ auth.response = JSONMessage(200, RESET_LINK_SENT)

\* ------------------------------------------------------------------------
\* Properties of the in-memory todo app
\* ------------------------------------------------------------------------
\* C20: add_task assigns the ids 1, 2, 3, ... in the order of the
\* successful creations; no id was assigned to two tasks, every stored
\* task has the id it is stored under and that id was assigned, and the
\* next id is above all assigned ones, so a freed id is not reused.
C20_SequentialIds ==
    /\ assigned = [i \in 1..Len(assigned) |-> i]
    /\ \A i, j \in DOMAIN assigned : i # j => assigned[i] # assigned[j]
    /\ \A id \in DOMAIN _tasks : _tasks[id].id = id /\ id \in Range(assigned)
    /\ \A i \in DOMAIN assigned : assigned[i] < _next_id

\* A task was added after the task with id 1 had been deleted; it got
\* the id 3, not the freed one.
C20_Witness ==
    /\ todo.op = "add_task"
    /\ todo.exc = ""
    /\ todo.task_id = Some(3)
    /\ assigned = <<1, 2, 3>>
    /\ DOMAIN _tasks = {2, 3}

====
